---- MODULE Spec2Model ----
\* Patch reconciliation engine of bugsmith: the diff parser, the header
\* synthesizer, the fuzzy locator, the patch applicator (lib/git/applyPatch.ts,
\* lib/ai/generatePatch.ts), the apply-fix route and the agent's escalation
\* ladder (runAgent).
\*
\* Text is modelled as it is in the program: a string is a sequence of
\* one-character strings, a file or a patch is the array that split("\n")
\* yields, and every string operation of the source (startsWith, substring,
\* trim, includes, indexOf, parseInt, template formatting) is computed on
\* that representation.
EXTENDS Integers, Sequences, FiniteSets, TLC

VARIABLES
    repo,       \* the work tree: path -> lines of the file
    patchText,  \* the patch text at hand, as its lines
    applies,    \* how many times the patch has been applied to repo
    snaps,      \* the work tree before each application, oldest first
    matchLog,   \* the matchPos values of the last application, in hunk order
    applyResult, \* the ApplyPatchResult of the last application
    rawText,    \* the model's raw output the patch text was made from, as lines
    trace,      \* what the last applyPatch call did, in order
    status,     \* AgentState.status
    currentStepIndex, \* AgentState.currentStepIndex
    steps,      \* AgentState.steps: the status of each step
    retryState, \* AgentState.retryState: <<>> when undefined
    pendingPatch, \* AgentState.pendingPatch: <<>> when undefined
    isCancelledRef, \* isCancelledRef.current
    patchApprovalRef, \* the run whose approval promise the ref resolves; 0 when null
    runs,       \* the calls of runAgent: their locals and where they stand
    timers,     \* the pending setTimeout callbacks of the reset
    resets,     \* how many times resetAgent has been called
    reqLog,     \* per run, the requests it sent to the apply-fix route and
                \* what became of them
    world       \* what surrounds the agent: how often the user starts it and
                \* whether the services it calls can fail

engineVars == <<repo, patchText, applies, snaps, matchLog, applyResult, rawText, trace>>
agentVars == <<status, currentStepIndex, steps, retryState, pendingPatch, isCancelledRef,
               patchApprovalRef, runs, timers, resets, reqLog>>
vars == <<engineVars, agentVars, world>>

\* the pipeline of the agent: the step ids of initialSteps by index
StepIds == <<"analyze-repo", "select-issue", "prepare-repo", "analyze-code", "apply-fix",
             "generate-pr", "deploy-preview", "complete">>
StepIndexes == 0..(Len(StepIds) - 1)
initialSteps == [i \in StepIndexes |-> "pending"]
NoTimers == [reset |-> 0, clear |-> 0]

MaxRuns == 1
MaxResets == 1

\* the user starts the agent up to MaxRuns times, and every service the
\* agent calls can answer in each of its ways
Everything == [runLimit |-> MaxRuns, faults |-> TRUE]

\* the agent provider as constructed
AgentInit ==
    /\ status = "idle"
    /\ currentStepIndex = 0 - 1
    /\ steps = initialSteps
    /\ retryState = <<>>
    /\ pendingPatch = <<>>
    /\ isCancelledRef = FALSE
    /\ patchApprovalRef = 0
    /\ runs = <<>>
    /\ timers = NoTimers
    /\ resets = 0
    /\ reqLog = <<>>

\* ---------------------------------------------------------------- strings

WS == {" ", "\t"}
DigitChars == <<"0", "1", "2", "3", "4", "5", "6", "7", "8", "9">>
IsDigit(c) == \E k \in 1..10 : DigitChars[k] = c
DigitVal(c) == (CHOOSE k \in 1..10 : DigitChars[k] = c) - 1

Max(a, b) == IF a >= b THEN a ELSE b
Min(a, b) == IF a <= b THEN a ELSE b
Abs(a) == IF a < 0 THEN 0 - a ELSE a

\* s.startsWith(p)
StartsWith(s, p) == Len(s) >= Len(p) /\ SubSeq(s, 1, Len(p)) = p

\* s.substring(n): the characters from 0-based index n on
Substring(s, n) == SubSeq(s, n + 1, Len(s))

\* s.indexOf(p), 1-based; 0 when p does not occur
IndexOf(s, p) ==
    LET hits == {k \in 1..(Len(s) - Len(p) + 1) : SubSeq(s, k, k + Len(p) - 1) = p}
    IN  IF hits = {} THEN 0 ELSE CHOOSE k \in hits : \A j \in hits : k <= j

\* s.includes(p)
Includes(s, p) == IndexOf(s, p) # 0

\* s.trim()
Trim(s) ==
    LET ink == {k \in 1..Len(s) : s[k] \notin WS}
    IN  IF ink = {} THEN <<>>
        ELSE SubSeq(s, CHOOSE k \in ink : \A j \in ink : k <= j,
                       CHOOSE k \in ink : \A j \in ink : k >= j)

\* parseInt(digits, 10) of a non-empty run of decimal digits
RECURSIVE ParseInt(_)
ParseInt(ds) ==
    IF ds = <<>> THEN 0
    ELSE 10 * ParseInt(SubSeq(ds, 1, Len(ds) - 1)) + DigitVal(ds[Len(ds)])

\* `${n}` of a non-negative integer
RECURSIVE ToDigits(_)
ToDigits(n) ==
    IF n < 10 THEN <<DigitChars[n + 1]>>
    ELSE ToDigits(n \div 10) \o <<DigitChars[(n % 10) + 1]>>

\* the literals the source tests lines against
OldFileMarker == <<"-", "-", "-", " ", "a", "/">>
NewFileMarker == <<"+", "+", "+", " ", "b", "/">>
HunkMarker == <<"@", "@">>

\* ------------------------------------------------------------- parsePatch

NoMatch == <<>>

\* index just after the maximal run of digits of s that starts at index k
RECURSIVE DigitRunEnd(_, _)
DigitRunEnd(s, k) ==
    IF k <= Len(s) /\ IsDigit(s[k]) THEN DigitRunEnd(s, k + 1) ELSE k

\* (\d+)(?:,(\d+))? at index k of s: <<[first, second, hasSecond, next]>> or NoMatch
RangeMatch(s, k) ==
    LET e1 == DigitRunEnd(s, k)
        e2 == DigitRunEnd(s, e1 + 1)
        two == e1 <= Len(s) /\ s[e1] = "," /\ e2 > e1 + 1
    IN  IF e1 = k THEN NoMatch
        ELSE <<[first |-> ParseInt(SubSeq(s, k, e1 - 1)),
                hasSecond |-> two,
                second |-> IF two THEN ParseInt(SubSeq(s, e1 + 1, e2 - 1)) ELSE 0,
                next |-> IF two THEN e2 ELSE e1]>>

\* line.match(/^@@ -(\d+)(?:,(\d+))? \+(\d+)(?:,(\d+))? @@/) and the hunk the
\* parser builds from the groups; NoMatch when the line does not match
HunkHeaderMatch(line) ==
    IF ~StartsWith(line, <<"@", "@", " ", "-">>) THEN NoMatch
    ELSE LET o == RangeMatch(line, 5)
         IN  IF o = NoMatch THEN NoMatch
             ELSE IF ~StartsWith(Substring(line, o[1].next - 1), <<" ", "+">>) THEN NoMatch
             ELSE LET n == RangeMatch(line, o[1].next + 2)
                  IN  IF n = NoMatch THEN NoMatch
                      ELSE IF ~StartsWith(Substring(line, n[1].next - 1), <<" ", "@", "@">>)
                           THEN NoMatch
                      ELSE <<[oldStart |-> o[1].first,
                              oldCount |-> IF o[1].hasSecond THEN o[1].second ELSE 1,
                              newStart |-> n[1].first,
                              newCount |-> IF n[1].hasSecond THEN n[1].second ELSE 1,
                              lines |-> <<>>]>>

\* currentFile.hunks.push(currentHunk) when both are set
PushHunk(cf, ch) ==
    IF cf # <<>> /\ ch # <<>>
    THEN <<[cf[1] EXCEPT !.hunks = Append(@, ch[1])]>>
    ELSE cf

\* the scan of parsePatch from line k on; cf and ch are currentFile and
\* currentHunk, <<>> for null
RECURSIVE ParseLoop(_, _, _, _, _)
ParseLoop(lines, k, files, cf, ch) ==
    IF k > Len(lines)
    THEN LET cf2 == PushHunk(cf, ch)
         IN  IF cf2 # <<>> THEN Append(files, cf2[1]) ELSE files
    ELSE LET line == lines[k]
             hm == HunkHeaderMatch(line)
         IN  IF StartsWith(line, OldFileMarker)
             THEN LET cf2 == PushHunk(cf, ch)
                  IN  ParseLoop(lines, k + 1,
                                IF cf2 # <<>> THEN Append(files, cf2[1]) ELSE files,
                                <<[filePath |-> Trim(Substring(line, 6)), hunks |-> <<>>]>>,
                                <<>>)
             ELSE IF StartsWith(line, NewFileMarker)
             THEN ParseLoop(lines, k + 1, files, cf, ch)
             ELSE IF hm # NoMatch
             THEN ParseLoop(lines, k + 1, files, PushHunk(cf, ch), hm)
             ELSE IF ch # <<>> /\ (StartsWith(line, <<"+">>) \/ StartsWith(line, <<"-">>)
                                   \/ StartsWith(line, <<" ">>) \/ line = <<>>)
             THEN ParseLoop(lines, k + 1, files, cf,
                            <<[ch[1] EXCEPT !.lines = Append(@, line)]>>)
             ELSE ParseLoop(lines, k + 1, files, cf, ch)

parsePatch(patch) == ParseLoop(patch, 1, <<>>, <<>>, <<>>)

\* ------------------------------------------------- findBestMatch (fuzzy)

\* the Context and Removed lines of the hunk, without their prefix
RECURSIVE SearchLinesOf(_)
SearchLinesOf(hl) ==
    IF hl = <<>> THEN <<>>
    ELSE LET line == Head(hl)
         IN  (IF StartsWith(line, <<" ">>) \/ StartsWith(line, <<"-">>)
              THEN <<Substring(line, 1)>> ELSE <<>>) \o SearchLinesOf(Tail(hl))

matchesAt(fileLines, searchLines, pos) ==
    IF pos < 0 \/ pos + Len(searchLines) > Len(fileLines) THEN FALSE
    ELSE \A k \in 1..Len(searchLines) : fileLines[pos + k] = searchLines[k]

\* A score is a JavaScript Number (IEEE 754 binary64), and 0.8 is not one
\* exactly, so the sums are rounded. The Numbers that occur here are
\* written as exact fractions over 10 * 2^52 with the numerator in two
\* limbs: [hi, lo] stands for (hi * 2^52 + lo) / (10 * 2^52), hi tenths
\* and lo tenths of the last place of 1.0.
TwoTo52Mod(m) == (((2 ^ 26) % m) * ((2 ^ 26) % m)) % m

\* (hi * 2^52 + lo) modulo m
NumeratorMod(hi, lo, m) == ((hi % m) * TwoTo52Mod(m) + (lo % m)) % m

\* the spacing of the Numbers in the binade of [hi, lo], as a numerator:
\* 5 in [0.5, 1), 10 in [1, 2), 20 in [2, 4), ...
RECURSIVE UlpFrom(_, _, _)
UlpFrom(hi, lo, step) ==
    IF hi > 2 * step \/ (hi = 2 * step /\ lo >= 0)
    THEN UlpFrom(hi, lo, 2 * step) ELSE step

\* round to nearest, ties to the even significand
RoundToNumber(hi, lo) ==
    IF hi = 0 /\ lo = 0 THEN [hi |-> 0, lo |-> 0]
    ELSE LET step == UlpFrom(hi, lo, 5)
             r == NumeratorMod(hi, lo, step)
             downIsEven == NumeratorMod(hi, lo - r, 2 * step) = 0
         IN  IF 2 * r < step \/ (2 * r = step /\ downIsEven)
             THEN [hi |-> hi, lo |-> lo - r]
             ELSE [hi |-> hi, lo |-> lo + step - r]

NumberAdd(x, y) == RoundToNumber(x.hi + y.hi, x.lo + y.lo)
NumberLess(x, y) == x.hi < y.hi \/ (x.hi = y.hi /\ x.lo < y.lo)

\* the Number of an integer, and of half an integer (both exact)
NumberOf(n) == [hi |-> 10 * n, lo |-> 0]

\* HalfOf with the threshold at nothing
HalfOfNothing(n) == [hi |-> 0, lo |-> 0]

HalfOf(n) == [hi |-> 5 * n, lo |-> 0]

\* the literals 1 and 0.8
ExactScore == NumberOf(1)
TrimScore == RoundToNumber(8, 0)

RECURSIVE ScoreLoop(_, _, _, _, _)
ScoreLoop(fileLines, searchLines, pos, k, score) ==
    IF k >= Len(searchLines) THEN score
    ELSE IF pos + k >= Len(fileLines) THEN score
    ELSE LET fileLine == fileLines[pos + k + 1]
             searchLine == searchLines[k + 1]
         IN  ScoreLoop(fileLines, searchLines, pos, k + 1,
                       IF fileLine = searchLine THEN NumberAdd(score, ExactScore)
                       ELSE IF Trim(fileLine) = Trim(searchLine)
                       THEN NumberAdd(score, TrimScore)
                       ELSE score)

calculateMatchScore(fileLines, searchLines, pos) ==
    ScoreLoop(fileLines, searchLines, pos, 0, NumberOf(0))

searchRange == 50

\* The offset loop. The candidates are visited in the order
\* expectedStart - 0, expectedStart + 0, expectedStart - 1, expectedStart + 1, ...
\* up to offset searchRange; candidate n (from 0) has offset n \div 2 and
\* lies before expectedStart when n is even. A candidate outside
\* 0..(fileLines.length - searchLines.length) is skipped. The loop returns
\* at the first candidate whose score is searchLines.length; otherwise
\* bestPos is the first candidate whose score exceeds all earlier ones
\* (score > bestScore, bestScore starting at -1), accepted when bestScore
\* >= searchLines.length * 0.5.
\* CandPos with the two sides visited in the other order
CandPosAfterFirst(expectedStart, n) ==
    IF n % 2 = 0 THEN expectedStart + (n \div 2) ELSE expectedStart - (n \div 2)

CandPos(expectedStart, n) ==
    IF n % 2 = 0 THEN expectedStart - (n \div 2) ELSE expectedStart + (n \div 2)

SearchLoop(fileLines, searchLines, expectedStart) ==
    LET visited == {n \in 0..(2 * searchRange + 1) :
                      /\ CandPos(expectedStart, n) >= 0
                      /\ CandPos(expectedStart, n) <= Len(fileLines) - Len(searchLines)}
        score == [n \in visited |->
                      calculateMatchScore(fileLines, searchLines, CandPos(expectedStart, n))]
        perfect == {n \in visited : score[n] = NumberOf(Len(searchLines))}
        best == {n \in visited : \A m \in visited :
                      NumberLess(score[m], score[n]) \/ (score[m] = score[n] /\ m >= n)}
    IN  IF perfect # {}
        THEN CandPos(expectedStart, CHOOSE n \in perfect : \A m \in perfect : n <= m)
        ELSE IF best # {} /\ (\A n \in best :
                                  ~NumberLess(score[n], HalfOf(Len(searchLines))))
        THEN CandPos(expectedStart, CHOOSE n \in best : TRUE)
        ELSE expectedStart

findBestMatch(fileLines, hunk) ==
    LET searchLines == SearchLinesOf(hunk.lines)
        expectedStart == hunk.oldStart - 1
    IN  IF Len(searchLines) = 0 THEN hunk.oldStart - 1
        ELSE IF matchesAt(fileLines, searchLines, expectedStart) THEN expectedStart
        ELSE SearchLoop(fileLines, searchLines, expectedStart)

\* ------------------------------------------------------ applyHunkToLines

\* the lines the walk over hunk.lines collects in linesToAdd; fileIndex is
\* 0-based and is only read where the source reads result[fileIndex]
RECURSIVE EmitLoop(_, _, _)
EmitLoop(result, hl, fileIndex) ==
    IF hl = <<>> THEN <<>>
    ELSE LET line == Head(hl)
         IN  IF StartsWith(line, <<" ">>)
             THEN LET contextLine == Substring(line, 1)
                      out == IF fileIndex >= 0 /\ fileIndex < Len(result)
                             THEN LET fileLine == result[fileIndex + 1]
                                  IN  IF fileLine # contextLine
                                         /\ Trim(fileLine) = Trim(contextLine)
                                      THEN fileLine ELSE contextLine
                             ELSE contextLine
                  IN  <<out>> \o EmitLoop(result, Tail(hl), fileIndex + 1)
             ELSE IF StartsWith(line, <<"-">>)
             THEN EmitLoop(result, Tail(hl), fileIndex + 1)
             ELSE IF StartsWith(line, <<"+">>)
             THEN <<Substring(line, 1)>> \o EmitLoop(result, Tail(hl), fileIndex)
             ELSE EmitLoop(result, Tail(hl), fileIndex)

\* result[fileIndex] is undefined for a negative index, and undefined.trim()
\* throws a TypeError: true when the walk reads a Context line at fileIndex < 0
RECURSIVE WalkThrows(_, _)
WalkThrows(hl, fileIndex) ==
    IF hl = <<>> THEN FALSE
    ELSE LET line == Head(hl)
         IN  IF StartsWith(line, <<" ">>)
             THEN fileIndex < 0 \/ WalkThrows(Tail(hl), fileIndex + 1)
             ELSE IF StartsWith(line, <<"-">>) THEN WalkThrows(Tail(hl), fileIndex + 1)
             ELSE WalkThrows(Tail(hl), fileIndex)

\* Array.prototype.splice(start, deleteCount, ...items) on a copy of arr
Splice(arr, start, deleteCount, items) ==
    LET n == Len(arr)
        from == IF start < 0 THEN Max(n + start, 0) ELSE Min(start, n)
        del == Min(Max(deleteCount, 0), n - from)
    IN  SubSeq(arr, 1, from) \o items \o SubSeq(arr, from + del + 1, n)

\* ApplyAt with the splice taking out only the lines marked Removed
ApplyAtRemovedOnly(fileLines, hunk, matchPos) ==
    Splice(fileLines, matchPos,
           Cardinality({k \in 1..Len(hunk.lines) : StartsWith(hunk.lines[k], <<"-">>)}),
           EmitLoop(fileLines, hunk.lines, matchPos))

\* the body of applyHunkToLines once matchPos is known
ApplyAt(fileLines, hunk, matchPos) ==
    Splice(fileLines, matchPos, hunk.oldCount, EmitLoop(fileLines, hunk.lines, matchPos))

applyHunkToLines(fileLines, hunk) ==
    ApplyAt(fileLines, hunk, findBestMatch(fileLines, hunk))

applyHunkThrows(fileLines, hunk) ==
    WalkThrows(hunk.lines, findBestMatch(fileLines, hunk))

\* ------------------------------------------------------------ file store

\* The repository's files: a function from the path relative to the
\* repository root (normalised, "/"-separated; a path that leaves the root
\* starts with "..") to the file's lines, the array split("\n") yields.
\* DOMAIN is the set of existing files.

\* the segments of path s between "/" separators
RECURSIVE SplitPath(_, _)
SplitPath(s, cur) ==
    IF s = <<>> THEN <<cur>>
    ELSE IF Head(s) = "/" THEN <<cur>> \o SplitPath(Tail(s), <<>>)
    ELSE SplitPath(Tail(s), Append(cur, Head(s)))

\* path normalisation as path.join does it below the repository root
RECURSIVE NormSegs(_, _)
NormSegs(segs, stack) ==
    IF segs = <<>> THEN stack
    ELSE LET g == Head(segs)
         IN  IF g = <<>> \/ g = <<".">> THEN NormSegs(Tail(segs), stack)
             ELSE IF g = <<".", ".">>
             THEN IF stack # <<>> /\ stack[Len(stack)] # <<".", ".">>
                  THEN NormSegs(Tail(segs), SubSeq(stack, 1, Len(stack) - 1))
                  ELSE NormSegs(Tail(segs), Append(stack, g))
             ELSE NormSegs(Tail(segs), Append(stack, g))

RECURSIVE JoinSegs(_)
JoinSegs(segs) ==
    IF segs = <<>> THEN <<>>
    ELSE IF Len(segs) = 1 THEN segs[1]
    ELSE segs[1] \o <<"/">> \o JoinSegs(Tail(segs))

\* join(repoPath, p), as the path relative to the repository root
JoinRepo(p) == JoinSegs(NormSegs(SplitPath(p, <<>>), <<>>))

existsSync(fsys, p) == JoinRepo(p) \in DOMAIN fsys
readLines(fsys, p) == fsys[JoinRepo(p)]
writeLines(fsys, p, lines) == [fsys EXCEPT ![JoinRepo(p)] = lines]

\* -------------------------------------------------------- applyPatchFuzzy

\* HunkLoop taking the hunks from the last to the first
RECURSIVE HunkLoopBackwards(_, _, _)
HunkLoopBackwards(fileLines, hunks, located) ==
    IF hunks = <<>> THEN [lines |-> fileLines, threw |-> FALSE, located |-> located]
    ELSE CHOOSE r \in {
             IF WalkThrows(hunks[Len(hunks)].lines, pos)
             THEN [lines |-> fileLines, threw |-> TRUE, located |-> Append(located, pos)]
             ELSE HunkLoopBackwards(ApplyAt(fileLines, hunks[Len(hunks)], pos),
                                    SubSeq(hunks, 1, Len(hunks) - 1),
                                    Append(located, pos)) :
             pos \in {findBestMatch(fileLines, hunks[Len(hunks)])}} : TRUE

\* for (const hunk of filePatch.hunks) fileLines = applyHunkToLines(...);
\* threw is set when a hunk raises the TypeError, located collects matchPos
RECURSIVE HunkLoop(_, _, _)
HunkLoop(fileLines, hunks, located) ==
    IF hunks = <<>> THEN [lines |-> fileLines, threw |-> FALSE, located |-> located]
    ELSE CHOOSE r \in {
             IF WalkThrows(Head(hunks).lines, pos)
             THEN [lines |-> fileLines, threw |-> TRUE, located |-> Append(located, pos)]
             ELSE HunkLoop(ApplyAt(fileLines, Head(hunks), pos), Tail(hunks),
                           Append(located, pos)) :
             pos \in {findBestMatch(fileLines, Head(hunks))}} : TRUE

ErrNone == "none"
ErrFileNotFound == "File not found"
ErrThrown == "TypeError"

\* the loop over parsedFiles; a file is written as soon as its hunks are applied
RECURSIVE FileLoop(_, _, _, _)
FileLoop(fsys, parsedFiles, modifiedFiles, located) ==
    IF parsedFiles = <<>>
    THEN [fsys |-> fsys, success |-> TRUE, modifiedFiles |-> modifiedFiles,
          error |-> ErrNone, threw |-> FALSE, located |-> located,
          written |-> modifiedFiles]
    ELSE LET filePatch == Head(parsedFiles)
         IN  IF ~existsSync(fsys, filePatch.filePath)
             THEN [fsys |-> fsys, success |-> FALSE, modifiedFiles |-> <<>>,
                   error |-> ErrFileNotFound, threw |-> FALSE, located |-> located,
                   written |-> modifiedFiles]
             ELSE LET h == HunkLoop(readLines(fsys, filePatch.filePath),
                                    filePatch.hunks, located)
                  IN  IF h.threw
                      THEN [fsys |-> fsys, success |-> FALSE, modifiedFiles |-> <<>>,
                            error |-> ErrThrown, threw |-> TRUE, located |-> h.located,
                            written |-> modifiedFiles]
                      ELSE FileLoop(writeLines(fsys, filePatch.filePath, h.lines),
                                    Tail(parsedFiles),
                                    Append(modifiedFiles, filePatch.filePath), h.located)

applyPatchFuzzy(fsys, patch) == FileLoop(fsys, parsePatch(patch), <<>>, <<>>)


\* ------------------------------------------------ inputs of the engine

\* `@@ -${oldStart},${oldCount} +${newStart},${newCount} @@`
HunkHeader(oldStart, oldCount, newStart, newCount) ==
    <<"@", "@", " ", "-">> \o ToDigits(oldStart) \o <<",">> \o ToDigits(oldCount)
    \o <<" ", "+">> \o ToDigits(newStart) \o <<",">> \o ToDigits(newCount)
    \o <<" ", "@", "@">>

FileF == <<"f", ".", "j", "s">>
FileG == <<"g", ".", "j", "s">>

La == <<"a">>
Lb == <<"b">>
Lc == <<"c">>
Ld == <<"d">>
Le == <<"e">>
Lz == <<"z">>

Pad(k) == [i \in 1..k |-> Lz]

CoreA == <<La, Lb, Lc, Ld, Le>>
CoreW == <<La, <<" ", "b">>, Lc, <<"d", "\t">>, Le>>
CoreDup == <<Lb, Lc, Ld, La, Lb, Lc, Ld>>
Cores == {CoreA, CoreW, CoreDup}

BodyReplace == << <<" ", "b">>, <<"-", "c">>, <<"+", "c", "2">>, <<" ", "d">> >>
BodyInsert == << <<" ", "b">>, <<"+", "x">>, <<" ", "c">> >>
BodyRemove == << <<"-", "c">> >>
BodyAdd == << <<"+", "x">> >>
Bodies == {BodyReplace, BodyInsert, BodyRemove, BodyAdd}

\* the tallies of a hunk body: Context+Removed and Context+Added
OldTally(body) == Cardinality({k \in 1..Len(body) :
                      StartsWith(body[k], <<" ">>) \/ StartsWith(body[k], <<"-">>)})
NewTally(body) == Cardinality({k \in 1..Len(body) :
                      StartsWith(body[k], <<" ">>) \/ StartsWith(body[k], <<"+">>)})

MaxNear == 2
MaxSkew == 1
MaxApplies == 2

PadSizes == (0..MaxNear) \cup {searchRange}
DeclaredStarts == (1..(MaxNear + 2)) \cup (searchRange..(searchRange + 3))

\* a one-file, one-hunk patch for f
HunkPatch(start, body, skew) ==
    << OldFileMarker \o FileF, NewFileMarker \o FileF,
       HunkHeader(start, OldTally(body) + skew, start, NewTally(body)) >> \o body

FuzzyPatches == {HunkPatch(s, b, w) : s \in DeclaredStarts, b \in Bodies, w \in 0..MaxSkew}
FuzzyRepos == {[p \in {FileF} |-> Pad(k) \o core] : k \in PadSizes, core \in Cores}

NoResult == [success |-> FALSE, modifiedFiles |-> <<>>, error |-> ErrNone]

\* ----------------------------------------- the fuzzy applicator at work

\* the scenario "declared line 10, content now at line 35"
ShiftedRepo == [p \in {FileF} |-> Pad(34) \o <<Lb, Lc, Ld, Le>>]
ShiftedPatch == HunkPatch(10, BodyReplace, 0)

\* a block of four equal lines over a file where two of the lines differ
\* in leading whitespace only
Lx == <<"x">>
IndentedRepo == [p \in {FileF} |-> <<Lx, Lx, <<" ", "x">>, <<" ", "x">>, Lx>>]
BodyAppend == << <<" ", "x">>, <<" ", "x">>, <<" ", "x">>, <<" ", "x">>, <<"+", "y">> >>
IndentedPatch == HunkPatch(1, BodyAppend, 0)

\* a block of which less than half is found anywhere
SparseRepo == [p \in {FileF} |-> <<Lz, Lz, Lb, Lz, Lz, Lz>>]
SparsePatch == HunkPatch(1, BodyReplace, 0)

\* a Context line whose text differs from the file's line by a blank
\* inside the line
SpacedRepo == [p \in {FileF} |-> <<La, <<"p", " ", " ", "q">>, Lc, Ld, Le>>]
BodySpaced == << <<" ", "p", " ", "q">>, <<"-", "c">>, <<"+", "c", "2">>, <<" ", "d">> >>
SpacedPatch == HunkPatch(2, BodySpaced, 0)

\* hunks declared at line 0, the old side of an empty or new file; the line
\* to remove is not in the file
BodyRemoveAbsent == << <<"-", "q">> >>
BodyAfterAbsent == << <<" ", "q">>, <<"+", "x">> >>
ZeroStartRepo == [p \in {FileF} |-> CoreA]
ZeroStartPatches == {HunkPatch(0, BodyAdd, 0), HunkPatch(0, BodyRemoveAbsent, 0),
                     HunkPatch(0, BodyAfterAbsent, 0)}

\* patches of two hunks for f: an insertion after line 1 and a replacement
\* of line 3, in both orders, and two replacements of the same line where
\* the second expects the result of the first
HunkText(start, body) ==
    <<HunkHeader(start, OldTally(body), start, NewTally(body))>> \o body
HunkInsertTop == HunkText(1, << <<" ", "a">>, <<"+", "x">> >>)
HunkReplaceC == HunkText(2, BodyReplace)
HunkCToC2 == HunkText(3, << <<"-", "c">>, <<"+", "c", "2">> >>)
HunkC2ToC3 == HunkText(3, << <<"-", "c", "2">>, <<"+", "c", "3">> >>)
TwoHunkPatch(first, second) ==
    <<OldFileMarker \o FileF, NewFileMarker \o FileF>> \o first \o second
TwoHunkPatches ==
    {TwoHunkPatch(HunkInsertTop, HunkReplaceC), TwoHunkPatch(HunkReplaceC, HunkInsertTop),
     TwoHunkPatch(HunkCToC2, HunkC2ToC3), TwoHunkPatch(HunkC2ToC3, HunkCToC2)}
TwoHunkRepos == {[p \in {FileF} |-> core] : core \in {CoreA, CoreDup}}

\* a patch for f and then for g, on a repository that has no g
TwoFileRepo == [p \in {FileF} |-> CoreA]
TwoFilePatch ==
    HunkPatch(2, BodyReplace, 0)
    \o <<OldFileMarker \o FileG, NewFileMarker \o FileG>> \o HunkText(1, BodyAdd)

InitFuzzy ==
    /\ \/ repo \in FuzzyRepos /\ patchText \in FuzzyPatches
       \/ repo = ShiftedRepo /\ patchText = ShiftedPatch
       \/ repo = IndentedRepo /\ patchText = IndentedPatch
       \/ repo = SparseRepo /\ patchText = SparsePatch
       \/ repo = SpacedRepo /\ patchText = SpacedPatch
       \/ repo = ZeroStartRepo /\ patchText \in ZeroStartPatches
       \/ repo \in TwoHunkRepos /\ patchText \in TwoHunkPatches
       \/ repo = TwoFileRepo /\ patchText = TwoFilePatch
    /\ applies = 0
    /\ snaps = <<>>
    /\ matchLog = <<>>
    /\ applyResult = NoResult
    /\ rawText = <<>>
    /\ trace = <<>>
    /\ AgentInit
    /\ world = Everything

\* one call of applyPatchFuzzy(repoPath, patch) on the work tree
FuzzyApply ==
    /\ patchText # <<>>
    /\ applies < MaxApplies
    /\ \E r \in {applyPatchFuzzy(repo, patchText)} :
           /\ repo' = r.fsys
           /\ matchLog' = r.located
           /\ applyResult' = [success |-> r.success, modifiedFiles |-> r.modifiedFiles,
                         error |-> r.error]
    /\ snaps' = Append(snaps, repo)
    /\ applies' = applies + 1
    /\ UNCHANGED <<patchText, rawText, trace, agentVars, world>>

NextFuzzy == FuzzyApply

SpecFuzzy == InitFuzzy /\ [][NextFuzzy]_vars



\* ------------------------------------------- generatePatch post-processing

TrimStart(s) ==
    LET ink == {k \in 1..Len(s) : s[k] \notin WS}
    IN  IF ink = {} THEN <<>>
        ELSE SubSeq(s, CHOOSE k \in ink : \A j \in ink : k <= j, Len(s))

TrimEnd(s) ==
    LET ink == {k \in 1..Len(s) : s[k] \notin WS}
    IN  IF ink = {} THEN <<>>
        ELSE SubSeq(s, 1, CHOOSE k \in ink : \A j \in ink : k >= j)

\* s.replace(/p/g, "")
RECURSIVE RemoveAll(_, _)
RemoveAll(s, p) ==
    IF Len(s) < Len(p) THEN s
    ELSE IF StartsWith(s, p) THEN RemoveAll(Substring(s, Len(p)), p)
    ELSE <<Head(s)>> \o RemoveAll(Tail(s), p)

\* the backtick character, one element of a string like any other character
Tick == "backtick"
Fence == <<Tick, Tick, Tick>>

RemoveFences(line) ==
    RemoveAll(RemoveAll(RemoveAll(line, Fence \o <<"d", "i", "f", "f">>),
                        Fence \o <<"p", "a", "t", "c", "h">>), Fence)

\* text.trim() on the lines of a text: the blank lines at either end go, the
\* first line loses its leading and the last its trailing whitespace
RECURSIVE DropBlankHead(_)
DropBlankHead(lines) ==
    IF lines = <<>> THEN <<>>
    ELSE IF Trim(Head(lines)) = <<>> THEN DropBlankHead(Tail(lines))
    ELSE lines

RECURSIVE DropBlankTail(_)
DropBlankTail(lines) ==
    IF lines = <<>> THEN <<>>
    ELSE IF Trim(lines[Len(lines)]) = <<>> THEN DropBlankTail(SubSeq(lines, 1, Len(lines) - 1))
    ELSE lines

TrimText(lines) ==
    LET core == DropBlankTail(DropBlankHead(lines))
    IN  IF core = <<>> THEN << <<>> >>
        ELSE IF Len(core) = 1 THEN <<Trim(core[1])>>
        ELSE <<TrimStart(core[1])>> \o SubSeq(core, 2, Len(core) - 1)
             \o <<TrimEnd(core[Len(core)])>>

sanitizePatch(lines) == TrimText([k \in 1..Len(lines) |-> RemoveFences(lines[k])])

\* the lines kept by removeLeadingBlankLinesInHunks from index k on;
\* skipping is set while the blank lines after a hunk header are dropped
RECURSIVE BlankLoop(_, _, _)
BlankLoop(lines, k, skipping) ==
    IF k > Len(lines) THEN <<>>
    ELSE IF skipping /\ Trim(lines[k]) = <<>> THEN BlankLoop(lines, k + 1, TRUE)
    ELSE <<lines[k]>> \o BlankLoop(lines, k + 1,
                                   Trim(lines[k]) = HunkMarker
                                   \/ StartsWith(lines[k], HunkMarker))

removeLeadingBlankLinesInHunks(lines) == BlankLoop(lines, 1, FALSE)

\* the look-ahead of injectHunkLineNumbers: the lines after index k up to the
\* next hunk or file header
RECURSIVE CollectHunkLines(_, _)
CollectHunkLines(lines, j) ==
    IF j > Len(lines) THEN <<>>
    ELSE IF StartsWith(lines[j], HunkMarker) \/ StartsWith(lines[j], OldFileMarker)
            \/ StartsWith(lines[j], NewFileMarker)
    THEN <<>>
    ELSE <<lines[j]>> \o CollectHunkLines(lines, j + 1)

\* the tally loop over hunkLines; first is firstContextLine, <<>> while it
\* is null or empty (both falsy)
RECURSIVE TallyLoop(_, _, _, _)
TallyLoop(hunkLines, oldCount, newCount, first) ==
    IF hunkLines = <<>> THEN [oldCount |-> oldCount, newCount |-> newCount, first |-> first]
    ELSE LET hLine == Head(hunkLines)
         IN  IF StartsWith(hLine, <<"-">>) /\ ~StartsWith(hLine, <<"-", "-", "-">>)
             THEN TallyLoop(Tail(hunkLines), oldCount + 1, newCount,
                            IF first = <<>> THEN Substring(hLine, 1) ELSE first)
             ELSE IF StartsWith(hLine, <<"+">>) /\ ~StartsWith(hLine, <<"+", "+", "+">>)
             THEN TallyLoop(Tail(hunkLines), oldCount, newCount + 1, first)
             ELSE IF StartsWith(hLine, <<" ">>)
             THEN TallyLoop(Tail(hunkLines), oldCount + 1, newCount + 1,
                            IF first = <<>> THEN Substring(hLine, 1) ELSE first)
             ELSE IF Trim(hLine) # <<>>
             THEN TallyLoop(Tail(hunkLines), oldCount + 1, newCount + 1,
                            IF first = <<>> THEN hLine ELSE first)
             ELSE TallyLoop(Tail(hunkLines), oldCount, newCount, first)

\* FindAnchor matching exact lines only
FindAnchorExactOnly(fileLines, first) ==
    LET hits == {k \in 1..Len(fileLines) : fileLines[k] = first}
    IN  IF hits = {} THEN 0 ELSE CHOOSE k \in hits : \A j \in hits : k <= j

\* fileLines.findIndex(fl => fl === first || fl.trim() === first.trim()), 1-based; 0 for -1
FindAnchor(fileLines, first) ==
    LET hits == {k \in 1..Len(fileLines) :
                    fileLines[k] = first \/ Trim(fileLines[k]) = Trim(first)}
    IN  IF hits = {} THEN 0 ELSE CHOOSE k \in hits : \A j \in hits : k <= j

\* SynthHeader with line 0 as the start where no anchor is found
SynthHeaderFromZero(lines, k, fileLines) ==
    LET t == TallyLoop(CollectHunkLines(lines, k + 1), 0, 0, <<>>)
        idx == IF t.first # <<>> /\ Len(fileLines) > 0 THEN FindAnchor(fileLines, t.first)
               ELSE 0
    IN  HunkHeader(idx, t.oldCount, idx, t.newCount)

\* the header written for a bare @@ at index k
SynthHeader(lines, k, fileLines) ==
    LET t == TallyLoop(CollectHunkLines(lines, k + 1), 0, 0, <<>>)
        idx == IF t.first # <<>> /\ Len(fileLines) > 0 THEN FindAnchor(fileLines, t.first)
               ELSE 0
        startLine == IF idx # 0 THEN idx ELSE 1
    IN  HunkHeader(startLine, t.oldCount, startLine, t.newCount)

\* the main loop of injectHunkLineNumbers from index k on; currentFile is
\* <<>> while it is null or empty
RECURSIVE InjectLoop(_, _, _, _, _, _)
InjectLoop(lines, k, fsys, currentFile, fileLines, inHunk) ==
    IF k > Len(lines) THEN <<>>
    ELSE LET line == lines[k]
         IN  IF StartsWith(line, OldFileMarker)
             THEN LET cf == Trim(Substring(line, 6))
                  IN  <<line>> \o InjectLoop(lines, k + 1, fsys, cf,
                                  IF cf = <<>> THEN fileLines
                                  ELSE IF existsSync(fsys, cf) THEN readLines(fsys, cf)
                                  ELSE <<>>,
                                  FALSE)
             ELSE IF StartsWith(line, NewFileMarker)
             THEN <<line>> \o InjectLoop(lines, k + 1, fsys, currentFile, fileLines, inHunk)
             ELSE IF Trim(line) = HunkMarker /\ currentFile # <<>>
             THEN <<SynthHeader(lines, k, fileLines)>>
                  \o InjectLoop(lines, k + 1, fsys, currentFile, fileLines, TRUE)
             ELSE IF StartsWith(line, HunkMarker)
             THEN <<line>> \o InjectLoop(lines, k + 1, fsys, currentFile, fileLines, TRUE)
             ELSE IF inHunk
             THEN (IF StartsWith(line, <<"+">>) \/ StartsWith(line, <<"-">>)
                      \/ StartsWith(line, <<" ">>)
                   THEN <<line>>
                   ELSE IF line = <<>> THEN << <<" ">> >>
                   ELSE << <<" ">> \o line >>)
                  \o InjectLoop(lines, k + 1, fsys, currentFile, fileLines, inHunk)
             ELSE <<line>> \o InjectLoop(lines, k + 1, fsys, currentFile, fileLines, inHunk)

\* "" stays ""; a text is its lines, and "".split("\n") is [""]
injectHunkLineNumbers(lines, fsys) ==
    IF lines = << <<>> >> THEN << <<>> >>
    ELSE InjectLoop(lines, 1, fsys, <<>>, <<>>, FALSE)

\* what generatePatch does to the model's output before returning it
PostProcess(raw, fsys) ==
    injectHunkLineNumbers(removeLeadingBlankLinesInHunks(sanitizePatch(raw)), fsys)

\* ------------------------------------------------- claims on SpecFuzzy

\* the single hunk of the patch at hand, as the applicator receives it
TheHunk == parsePatch(patchText)[1].hunks[1]

\* the file before and after the n-th application
FileBefore(n) == snaps[n][FileF]
FileAfter(n) == IF n = applies THEN repo[FileF] ELSE snaps[n + 1][FileF]

\* the new side of a hunk body: its Context and Added texts in hunk order
RECURSIVE NewSideOf(_)
NewSideOf(hl) ==
    IF hl = <<>> THEN <<>>
    ELSE (IF StartsWith(Head(hl), <<" ">>) \/ StartsWith(Head(hl), <<"+">>)
          THEN <<Substring(Head(hl), 1)>> ELSE <<>>) \o NewSideOf(Tail(hl))

\* a valid hunk: the header counts equal the body tallies (the Hunk invariant)
ValidHunk(h) ==
    /\ h.oldStart >= 1
    /\ h.oldCount = OldTally(h.lines)
    /\ h.newCount = NewTally(h.lines)

\* the hunk's Context and Removed lines equal the file's lines at the
\* declared position
ContextMatches(file, h) == matchesAt(file, SearchLinesOf(h.lines), h.oldStart - 1)

Occurrences(file, h) ==
    {q \in 0..Len(file) :
        /\ matchesAt(file, SearchLinesOf(h.lines), q)
        /\ Abs(q - (h.oldStart - 1)) <= searchRange}

\* C3 as stated: whenever the block occurs unchanged at a position q at most
\* 50 lines from the declared one, findBestMatch returns q.
C3_ReturnsEveryShiftedPosition ==
    applies >= 1 =>
        LET h == TheHunk
        IN  SearchLinesOf(h.lines) # <<>> =>
                \A q \in Occurrences(FileBefore(applies), h) : matchLog[1] = q

\* C3 amended: when the block occurs unchanged within 50 lines of the declared
\* position, findBestMatch returns such an occurrence, the one nearest to the
\* declared position and, of two equally near, the earlier one; every line
\* of the block matches exactly there.
C3_ReturnsNearestShiftedPosition ==
    applies >= 1 =>
        LET h == TheHunk
            file == FileBefore(applies)
            exp == h.oldStart - 1
            occ == Occurrences(file, h)
        IN  (SearchLinesOf(h.lines) # <<>> /\ occ # {}) =>
                /\ matchLog[1] \in occ
                /\ calculateMatchScore(file, SearchLinesOf(h.lines), matchLog[1])
                       = NumberOf(Len(SearchLinesOf(h.lines)))
                /\ \A q \in occ :
                       \/ Abs(matchLog[1] - exp) < Abs(q - exp)
                       \/ Abs(matchLog[1] - exp) = Abs(q - exp) /\ matchLog[1] <= q

\* the spec's scenario (declared line 10, block at line 35, position 34)
C3_Witness ==
    /\ applies = 1
    /\ snaps[1] = ShiftedRepo
    /\ TheHunk.oldStart = 10
    /\ Occurrences(FileBefore(1), TheHunk) = {34}
    /\ matchLog = <<34>>

\* the score of the scoring rule: in tenths, 10 for every line of the
\* block equal to the file's line, 8 for every line equal after trimming
RECURSIVE RuleScore(_, _, _, _)
RuleScore(file, sl, pos, k) ==
    IF k > Len(sl) THEN 0
    ELSE (IF file[pos + k] = sl[k] THEN 10
          ELSE IF Trim(file[pos + k]) = Trim(sl[k]) THEN 8 ELSE 0)
         + RuleScore(file, sl, pos, k + 1)

\* the in-range candidates within 50 lines of the declared position
Candidates(file, h) ==
    {q \in 0..(Len(file) - Len(SearchLinesOf(h.lines))) :
        Abs(q - (h.oldStart - 1)) <= searchRange}

\* the candidates of maximal rule score
TopCandidates(file, h) ==
    {q \in Candidates(file, h) : \A c \in Candidates(file, h) :
        RuleScore(file, SearchLinesOf(h.lines), c, 1)
            <= RuleScore(file, SearchLinesOf(h.lines), q, 1)}

\* the search of findBestMatch ran on the first hunk of the last
\* application: the block is not at the declared position and there are
\* candidates
Searched ==
    /\ applies >= 1
    /\ SearchLinesOf(TheHunk.lines) # <<>>
    /\ ~matchesAt(FileBefore(applies), SearchLinesOf(TheHunk.lines), TheHunk.oldStart - 1)
    /\ Candidates(FileBefore(applies), TheHunk) # {}

\* the best rule score reaches half of the block's length
Accepted ==
    \E q \in TopCandidates(FileBefore(applies), TheHunk) :
        2 * RuleScore(FileBefore(applies), SearchLinesOf(TheHunk.lines), q, 1)
            >= 10 * Len(SearchLinesOf(TheHunk.lines))

\* C20: when the block does not match exactly at the declared position and
\* the best candidate is accepted (its score is at least half of the block's
\* length), findBestMatch returns a candidate whose score, the sum of 1.0
\* per exact line and 0.8 per line equal after trimming, is maximal among
\* the in-range candidates within 50 lines, and no candidate of that score
\* is nearer to the declared position.
C20_SelectsNearestMaximalScore ==
    (Searched /\ Accepted) =>
        LET top == TopCandidates(FileBefore(applies), TheHunk)
            exp == TheHunk.oldStart - 1
        IN  /\ matchLog[1] \in top
            /\ \A q \in top : Abs(matchLog[1] - exp) <= Abs(q - exp)

\* C20 without the acceptance rule: whenever the search runs, the position
\* returned is a candidate of maximal score.
C20_AlwaysSelectsMaximalScore ==
    Searched => matchLog[1] \in TopCandidates(FileBefore(applies), TheHunk)

\* a candidate whose rule score is at least half of the block's length
Reasonable(file, h, q) ==
    /\ q \in Candidates(file, h)
    /\ 2 * RuleScore(file, SearchLinesOf(h.lines), q, 1) >= 10 * Len(SearchLinesOf(h.lines))

\* C21: findBestMatch returns a position other than the declared one
\* (oldStart - 1) only if that position is a candidate in the window whose
\* score is at least 50% of the number of search lines; when no candidate
\* in the window scores 50%, it returns exactly the declared position.
C21_RelocatesOnlyAboveThreshold ==
    (applies >= 1 /\ matchLog # <<>>) =>
        LET file == FileBefore(applies)
            exp == TheHunk.oldStart - 1
        IN  /\ matchLog[1] # exp => Reasonable(file, TheHunk, matchLog[1])
            /\ (\A q \in Candidates(file, TheHunk) : ~Reasonable(file, TheHunk, q))
                   => matchLog[1] = exp

\* the block b,c,d declared at line 1 of z,z,b,z,z,z: the best candidate
\* (index 2) scores 1.0 of 3, and the declared position 0 is returned
C21_Witness ==
    /\ applies = 1
    /\ snaps[1] = SparseRepo
    /\ Searched
    /\ RuleScore(FileBefore(1), SearchLinesOf(TheHunk.lines), 2, 1) = 10
    /\ \A q \in Candidates(FileBefore(1), TheHunk) : ~Reasonable(FileBefore(1), TheHunk, q)
    /\ matchLog = <<0>>

\* the text without its whitespace characters: two texts differ only by
\* whitespace when these are equal
Squeeze(t) == SelectSeq(t, LAMBDA ch : ch \notin WS)

\* the number of lines among the first k - 1 of the body that advance the
\* cursor in the old file (Context, Removed), and the number that are
\* emitted before line k (Context, Added)
OldBefore(hl, k) == OldTally(SubSeq(hl, 1, k - 1))
NewBefore(hl, k) == NewTally(SubSeq(hl, 1, k - 1))

\* the Context lines of the body whose cursor is on a line of the file
ContextAt(file, hl, pos) ==
    {k \in 1..Len(hl) : /\ StartsWith(hl[k], <<" ">>)
                        /\ pos + OldBefore(hl, k) + 1 \in 1..Len(file)}

\* the last application applied its one hunk without failing
AppliedOne == applies >= 1 /\ applyResult.success /\ Len(matchLog) = 1 /\ matchLog[1] >= 0

\* C22: for every Context line of the hunk whose text differs from the file
\* line at the cursor only by whitespace (or not at all), the applicator
\* emits the file's own line: the line of the result that stands for the
\* Context line is the file's line, unchanged.
C22_ContextKeepsTheFilesLine ==
    AppliedOne =>
        LET hl == TheHunk.lines
            pos == matchLog[1]
            before == FileBefore(applies)
            after == FileAfter(applies)
        IN  \A k \in ContextAt(before, hl, pos) :
                Squeeze(before[pos + OldBefore(hl, k) + 1]) = Squeeze(Substring(hl[k], 1))
                    => after[pos + NewBefore(hl, k) + 1] = before[pos + OldBefore(hl, k) + 1]

\* C22 for whitespace at the ends of the line only: a Context line that
\* equals the file line at the cursor after trim() is emitted as the file's
\* line.
C22_TrimmedContextKeepsTheFilesLine ==
    AppliedOne =>
        LET hl == TheHunk.lines
            pos == matchLog[1]
            before == FileBefore(applies)
            after == FileAfter(applies)
        IN  \A k \in ContextAt(before, hl, pos) :
                Trim(before[pos + OldBefore(hl, k) + 1]) = Trim(Substring(hl[k], 1))
                    => after[pos + NewBefore(hl, k) + 1] = before[pos + OldBefore(hl, k) + 1]

\* the last application applied its one hunk and returned
AppliedHunk == applies >= 1 /\ applyResult.success /\ Len(matchLog) = 1

\* the lines of file before index p and from index q on (0-based, as far as
\* the file has them)
LinesBefore(file, p) == SubSeq(file, 1, Min(Max(p, 0), Len(file)))
LinesFrom(file, q) == SubSeq(file, Max(q, 0) + 1, Len(file))

\* after is before with the lines at indices [p, p + oldCount) replaced by
\* as many lines as the body has Context and Added lines, the Added texts
\* at their places
ReplacedAt(before, after, h, p) ==
    LET pre == LinesBefore(before, p)
        suf == LinesFrom(before, p + h.oldCount)
    IN  /\ Len(after) = Len(pre) + NewTally(h.lines) + Len(suf)
        /\ SubSeq(after, 1, Len(pre)) = pre
        /\ SubSeq(after, Len(after) - Len(suf) + 1, Len(after)) = suf
        /\ \A k \in 1..Len(h.lines) :
               StartsWith(h.lines[k], <<"+">>)
                   => after[Len(pre) + NewBefore(h.lines, k) + 1] = Substring(h.lines[k], 1)

\* C23: applying a hunk at position p replaces exactly the lines at indices
\* [p, p + oldCount) by the emitted lines; every file line before p and
\* every line from p + oldCount onward is preserved unchanged and in order.
C23_OnlyTheDeclaredLinesAreReplaced ==
    AppliedHunk => ReplacedAt(FileBefore(applies), FileAfter(applies), TheHunk, matchLog[1])

\* C23 for the positions inside the file or at its end
C23_ReplacedFromNonNegativePosition ==
    (AppliedHunk /\ matchLog[1] >= 0)
        => ReplacedAt(FileBefore(applies), FileAfter(applies), TheHunk, matchLog[1])

\* the hunks of the patch at hand and the hunk header lines of its text,
\* in text order
TheHunks == parsePatch(patchText)[1].hunks
HeaderLines == SelectSeq(patchText, LAMBDA l : StartsWith(l, HunkMarker))

\* taking the hunks from first to last, each located in and applied to the
\* array the previous one produced, leads from arr to after with the
\* positions located
RECURSIVE InOrder(_, _, _, _)
InOrder(arr, hunks, located, after) ==
    IF hunks = <<>> THEN located = <<>> /\ arr = after
    ELSE /\ located # <<>>
         /\ located[1] = findBestMatch(arr, Head(hunks))
         /\ InOrder(ApplyAt(arr, Head(hunks), located[1]), Tail(hunks), Tail(located), after)

\* C24: the hunks of one FilePatch are the hunks of the patch text in text
\* order; they are applied in that order, each against the line array the
\* previous hunk produced, and the file is written once, after the last
\* hunk (a failed application has not written it).
C24_HunksApplyInTextOrder ==
    (applies >= 1 /\ Len(parsePatch(patchText)) = 1) =>
        /\ Len(TheHunks) = Len(HeaderLines)
        /\ \A i \in 1..Len(TheHunks) :
               HeaderLines[i] = HunkHeader(TheHunks[i].oldStart, TheHunks[i].oldCount,
                                           TheHunks[i].newStart, TheHunks[i].newCount)
        /\ IF applyResult.success
           THEN /\ InOrder(FileBefore(applies), TheHunks, matchLog, FileAfter(applies))
                /\ applyResult.modifiedFiles = <<FileF>>
           ELSE FileAfter(applies) = FileBefore(applies)

\* insertion after line 1 first, then the replacement declared at line 2:
\* the second hunk is found at index 2 of the array the first produced
\* (index 1 of the original file)
C24_Witness ==
    /\ applies = 1
    /\ FileBefore(1) = CoreA
    /\ patchText = TwoHunkPatch(HunkInsertTop, HunkReplaceC)
    /\ matchLog = <<0, 2>>
    /\ repo[FileF] = <<La, Lx, Lb, <<"c", "2">>, Ld, Le>>

\* C26: a fuzzy application that returns success=false with empty
\* modifiedFiles has written no file of the repository: the files are as
\* they were before the call.
C26_FailedFuzzyApplyWritesNothing ==
    (applies >= 1 /\ ~applyResult.success /\ applyResult.modifiedFiles = <<>>)
        => repo = snaps[applies]

\* every position located in the last application is at most 50 lines from
\* the position its hunk declares
NearDeclared ==
    \A i \in 1..Len(matchLog) :
        Abs(matchLog[i] - (TheHunks[i].oldStart - 1)) <= searchRange

\* C30: the position p that findBestMatch returns and applyHunkToLines
\* splices at is at most 50 lines from the declared position oldStart - 1
\* and lies in the file: 0 <= p <= number of file lines.
C30_PositionIsInsideTheFile ==
    (applies >= 1 /\ matchLog # <<>>) =>
        /\ NearDeclared
        /\ matchLog[1] \in 0..Len(FileBefore(applies))

\* C30 without the bounds of the file: the position is at most 50 lines from
\* the declared one
C30_PositionIsNearDeclared ==
    (applies >= 1 /\ matchLog # <<>>) => NearDeclared

\* the first application was a clean one: a valid hunk whose context
\* matched the file at the declared position
FirstClean == ValidHunk(TheHunk) /\ ContextMatches(FileBefore(1), TheHunk)

\* the hunk carries at least one Context line, by which a second application
\* could tell that the patch is already applied
HasContext(h) == \E k \in 1..Len(h.lines) : StartsWith(h.lines[k], <<" ">>)

\* C5: applying an already-applied patch a second time either leaves the
\* file unchanged (it holds the patch's after-state) or reports a failure
\* (checked on the patches whose hunk carries context).
C5_SecondApplyHarmless ==
    (applies = 2 /\ FirstClean /\ HasContext(TheHunk)) =>
        \/ applyResult.success = FALSE
        \/ repo[FileF] = FileAfter(1)


\* -------------------------------------------- header synthesis at work

BareHeader == HunkMarker

\* bodies as the model writes them: context without the space prefix, a
\* first context line that is not in the file, a blank line inside the hunk
BodyUnprefixed == << Lb, <<"-", "c">>, <<"+", "c", "2">>, Ld >>
BodyAbsentFirst == << <<" ", "q">>, <<"-", "c">>, <<"+", "c", "2">>, <<" ", "d">> >>
BodyBlankInside == << <<" ", "b">>, <<>>, <<"-", "c">>, <<"+", "x">> >>
BodyAddedFirst == << <<"+", "x">>, <<" ", "c">>, <<" ", "d">> >>
RawBodies == Bodies \cup {BodyUnprefixed, BodyAbsentFirst, BodyBlankInside, BodyAddedFirst}

RawHeaders == {BareHeader, BareHeader \o <<" ">>, HunkHeader(2, 3, 2, 3)}

RawPatch(header, body) ==
    << OldFileMarker \o FileF, NewFileMarker \o FileF, header >> \o body

\* the same text inside a code fence, and with a blank line after the header
Fenced(text) == << Fence \o <<"d", "i", "f", "f">> >> \o text \o <<Fence>>
BlankAfterHeader(text) == SubSeq(text, 1, 3) \o << <<>> >> \o SubSeq(text, 4, Len(text))

RawPatches ==
    LET plain == {RawPatch(h, b) : h \in RawHeaders, b \in RawBodies}
    IN  plain \cup {Fenced(t) : t \in plain} \cup {BlankAfterHeader(t) : t \in plain}

\* a file in which a whitespace variant of b precedes b itself
CoreWsFirst == << <<" ", "b">>, La, Lb, Lc, Ld >>
SynthRepos == {[p \in {FileF} |-> Pad(k) \o core] :
                  k \in (0..MaxNear) \cup {11}, core \in Cores \cup {CoreWsFirst}}

InitSynth ==
    /\ repo \in SynthRepos
    /\ rawText \in RawPatches
    /\ patchText = <<>>
    /\ applies = 0
    /\ snaps = <<>>
    /\ matchLog = <<>>
    /\ applyResult = NoResult
    /\ trace = <<>>
    /\ AgentInit
    /\ world = Everything

\* generatePatch returns the model's output after its post-processing
Generate ==
    /\ patchText = <<>>
    /\ patchText' = PostProcess(rawText, repo)
    /\ UNCHANGED <<repo, rawText, applies, snaps, matchLog, applyResult, trace, agentVars, world>>

NextSynth == Generate \/ FuzzyApply

SpecSynth == InitSynth /\ [][NextSynth]_vars

\* ------------------------------------------------- claims on SpecSynth

\* the model's hunk header was a bare @@
RawIsBare == \E k \in 1..Len(rawText) : Trim(rawText[k]) = HunkMarker

\* the texts of the Context lines of a parsed hunk
ContextTexts(h) ==
    {Substring(h.lines[k], 1) : k \in {j \in 1..Len(h.lines) : StartsWith(h.lines[j], <<" ">>)}}

RECURSIVE AnchorText(_)
AnchorText(body) ==
    IF body = <<>> THEN <<>>
    ELSE LET l == Head(body)
             t == IF StartsWith(l, <<"+">>) THEN <<>>
                  ELSE IF StartsWith(l, <<"-">>) \/ StartsWith(l, <<" ">>) THEN Substring(l, 1)
                  ELSE IF Trim(l) = <<>> THEN <<>>
                  ELSE l
         IN  IF t # <<>> THEN t ELSE AnchorText(Tail(body))

\* the file positions that hold the text t, verbatim or up to surrounding whitespace
AnchorPositions(file, t) ==
    {p \in 1..Len(file) : file[p] = t \/ Trim(file[p]) = Trim(t)}

GeneratedBody == SubSeq(patchText, 4, Len(patchText))
Generated == patchText # <<>> /\ RawIsBare
GeneratedFor == (snaps \o <<repo>>)[1][FileF]

C12_SynthesizedCountsEqualTallies ==
    (patchText # <<>> /\ RawIsBare) =>
        /\ TheHunk.oldCount = OldTally(TheHunk.lines)
        /\ TheHunk.newCount = NewTally(TheHunk.lines)


\* ------------------------------------------------------------- applyPatch

\* The repository directory and its .git directory are entries of the file
\* store like the files: existsSync(repoPath) is the presence of the root.
RepoRoot == <<>>
DotGit == <<".", "g", "i", "t">>
RejSuffix == <<".", "r", "e", "j">>
DevNull == <<"/", "d", "e", "v", "/", "n", "u", "l", "l">>

\* !patch.trim()
TextBlank(patch) == \A k \in 1..Len(patch) : Trim(patch[k]) = <<>>

\* patch.includes(m), for a marker m without line break
TextIncludes(patch, m) == \E k \in 1..Len(patch) : Includes(patch[k], m)

\* the offset of line k in the text: the lines before it and their line breaks
RECURSIVE LineOffset(_, _)
LineOffset(patch, k) ==
    IF k <= 1 THEN 0 ELSE LineOffset(patch, k - 1) + Len(patch[k - 1]) + 1

\* patch.indexOf(m): 0-based, -1 when m does not occur
TextIndexOf(patch, m) ==
    LET hits == {k \in 1..Len(patch) : Includes(patch[k], m)}
    IN  IF hits = {} THEN 0 - 1
        ELSE LET k == CHOOSE i \in hits : \A j \in hits : i <= j
             IN  LineOffset(patch, k) + IndexOf(patch[k], m) - 1

\* (line.match(/m/g) || []).length
RECURSIVE CountIn(_, _)
CountIn(line, m) ==
    IF Len(line) < Len(m) THEN 0
    ELSE IF StartsWith(line, m) THEN 1 + CountIn(Substring(line, Len(m)), m)
    ELSE CountIn(Tail(line), m)

RECURSIVE TextCount(_, _)
TextCount(patch, m) ==
    IF patch = <<>> THEN 0 ELSE CountIn(Head(patch), m) + TextCount(Tail(patch), m)

FmtOk == "null"
FmtEmpty == "Patch is empty"
FmtNoFileHeaders == "Invalid patch format: missing file headers (--- a/ or +++ b/)"
FmtNoHunkHeaders == "Invalid patch format: missing hunk headers (@@)"
FmtHunkFirst == "Invalid patch format: hunk headers appear before file headers"
FmtMismatch(fileHeaderCount, fileHeaderPlusCount) ==
    <<"Invalid patch format: mismatched file headers", fileHeaderCount, fileHeaderPlusCount>>

\* validatePatchFormat without the check of the order of the headers
validatePatchFormatAnyOrder(patch) ==
    IF TextBlank(patch) THEN FmtEmpty
    ELSE IF ~TextIncludes(patch, OldFileMarker) \/ ~TextIncludes(patch, NewFileMarker)
    THEN FmtNoFileHeaders
    ELSE IF ~TextIncludes(patch, HunkMarker) THEN FmtNoHunkHeaders
    ELSE IF TextCount(patch, OldFileMarker) # TextCount(patch, NewFileMarker)
    THEN FmtMismatch(TextCount(patch, OldFileMarker), TextCount(patch, NewFileMarker))
    ELSE FmtOk

validatePatchFormat(patch) ==
    IF TextBlank(patch) THEN FmtEmpty
    ELSE IF ~TextIncludes(patch, OldFileMarker) \/ ~TextIncludes(patch, NewFileMarker)
    THEN FmtNoFileHeaders
    ELSE IF ~TextIncludes(patch, HunkMarker) THEN FmtNoHunkHeaders
    ELSE IF TextIndexOf(patch, HunkMarker) # 0 - 1
            /\ TextIndexOf(patch, HunkMarker) < TextIndexOf(patch, OldFileMarker)
    THEN FmtHunkFirst
    ELSE IF TextCount(patch, OldFileMarker) # TextCount(patch, NewFileMarker)
    THEN FmtMismatch(TextCount(patch, OldFileMarker), TextCount(patch, NewFileMarker))
    ELSE FmtOk

\* filePath.replace(/^\/+/, "")
RECURSIVE StripSlashes(_)
StripSlashes(s) ==
    IF s # <<>> /\ Head(s) = "/" THEN StripSlashes(Tail(s)) ELSE s

\* the loop over patchLines that collects filePaths; traversal is set when
\* a path is refused
RECURSIVE PathLoop(_, _)
PathLoop(patchLines, filePaths) ==
    IF patchLines = <<>> THEN [filePaths |-> filePaths, traversal |-> FALSE]
    ELSE LET line == Head(patchLines)
             filePath == Trim(Substring(line, 6))
             normalized == StripSlashes(RemoveAll(filePath, <<".", ".">>))
             relativePath == JoinRepo(normalized)
         IN  IF (StartsWith(line, OldFileMarker) \/ StartsWith(line, NewFileMarker))
                /\ filePath # <<>> /\ filePath # DevNull
             THEN IF Includes(relativePath, <<".", ".">>)
                  THEN [filePaths |-> filePaths, traversal |-> TRUE]
                  ELSE PathLoop(Tail(patchLines), Append(filePaths, normalized))
             ELSE PathLoop(Tail(patchLines), filePaths)

\* git apply --unidiff-zero --ignore-whitespace on one file: every hunk must
\* have the counts of its header and find its old side in the file, up to
\* whitespace; ok is FALSE as soon as one hunk does not
RECURSIVE GitApplyHunks(_, _)
GitApplyHunks(fileLines, hunks) ==
    IF hunks = <<>> THEN [ok |-> TRUE, lines |-> fileLines]
    ELSE LET h == Head(hunks)
             sl == SearchLinesOf(h.lines)
         IN  CHOOSE r \in {
                 IF /\ h.oldCount = OldTally(h.lines)
                    /\ h.newCount = NewTally(h.lines)
                    /\ pos >= 0
                    /\ pos + Len(sl) <= Len(fileLines)
                    /\ \A k \in 1..Len(sl) : Trim(fileLines[pos + k]) = Trim(sl[k])
                 THEN GitApplyHunks(ApplyAt(fileLines, h, pos), Tail(hunks))
                 ELSE [ok |-> FALSE, lines |-> fileLines] :
                 pos \in {findBestMatch(fileLines, h)}} : TRUE

\* the path has a .. segment: git apply refuses such a path as invalid
\* (it is run without --unsafe-paths)
LeavesRoot(p) == \E g \in DOMAIN SplitPath(p, <<>>) : SplitPath(p, <<>>)[g] = <<".", ".">>

\* git apply on the work tree: all files or none
RECURSIVE GitApplyFiles(_, _)
GitApplyFiles(fsys, parsedFiles) ==
    IF parsedFiles = <<>> THEN [ok |-> TRUE, fsys |-> fsys]
    ELSE LET filePatch == Head(parsedFiles)
         IN  IF \/ ~existsSync(fsys, filePatch.filePath)
                \/ filePatch.hunks = <<>>
                \/ LeavesRoot(filePatch.filePath)
             THEN [ok |-> FALSE, fsys |-> fsys]
             ELSE LET h == GitApplyHunks(readLines(fsys, filePatch.filePath), filePatch.hunks)
                  IN  IF ~h.ok THEN [ok |-> FALSE, fsys |-> fsys]
                      ELSE GitApplyFiles(writeLines(fsys, filePatch.filePath, h.lines),
                                         Tail(parsedFiles))

\* what git apply can do with the patch: exit 0 with the patch applied, when
\* the patch fits the work tree, or exit non-zero with the work tree untouched
GitOutcomes(fsys, patch) ==
    LET parsed == parsePatch(patch)
        g == GitApplyFiles(fsys, parsed)
    IN  {[ok |-> FALSE, fsys |-> fsys]}
        \cup (IF parsed # <<>> /\ g.ok THEN {[ok |-> TRUE, fsys |-> g.fsys]} ELSE {})

ErrRepoMissing == "Repository path does not exist"
ErrNotGit == "Not a valid git repository"
ErrInvalid == "Patch was invalid"
ErrTraversal == "Invalid file path in patch. Path traversal detected."
ErrRejected == "Patch failed to apply. Some hunks could not be applied"
ErrBoth == "Patch failed to apply. git apply error. Fuzzy fallback error"
ErrBothThrown == "Patch failed to apply. git apply error. Fuzzy fallback also failed"

TierNone == "none"
TierNative == "native"
TierFuzzy == "fuzzy"

Refused(fsys, error, did) ==
    [fsys |-> fsys, success |-> FALSE, modifiedFiles |-> <<>>, error |-> error,
     trace |-> did, tier |-> TierNone]

\* the file store without the files in paths
Unlinked(fsys, paths) ==
    [p \in DOMAIN fsys \ {JoinRepo(paths[k]) : k \in 1..Len(paths)} |-> fsys[p]]

\* the catch branch of applyPatch once applyPatchFuzzy has returned f
FuzzyFallback(began, f) ==
    LET did == began \o <<"parsePatch">> \o [k \in 1..Len(f.written) |-> "writeFile"]
               \o <<"unlinkTemp">>
    IN  IF f.threw
        THEN [fsys |-> f.fsys, success |-> FALSE, modifiedFiles |-> <<>>,
              error |-> ErrBothThrown, trace |-> did, tier |-> TierNone]
        ELSE IF f.success
        THEN [fsys |-> f.fsys, success |-> TRUE, modifiedFiles |-> f.modifiedFiles,
              error |-> ErrNone, trace |-> did, tier |-> TierFuzzy]
        ELSE [fsys |-> f.fsys, success |-> FALSE, modifiedFiles |-> <<>>,
              error |-> ErrBoth, trace |-> did, tier |-> TierNone]

\* applyPatch(repoPath, patch) with git the outcome of git apply
applyPatch(fsys, patch, git) ==
    IF ~existsSync(fsys, RepoRoot) THEN Refused(fsys, ErrRepoMissing, <<>>)
    ELSE IF ~existsSync(fsys, DotGit) THEN Refused(fsys, ErrNotGit, <<>>)
    ELSE IF validatePatchFormat(patch) # FmtOk
    THEN Refused(fsys, <<ErrInvalid, validatePatchFormat(patch)>>, <<"validate">>)
    ELSE LET paths == PathLoop(patch, <<>>)
             began == <<"validate", "writeTemp", "gitApply">>
         IN  IF paths.traversal THEN Refused(fsys, ErrTraversal, <<"validate">>)
             ELSE IF git.ok
             THEN LET rejectFiles == SelectSeq(paths.filePaths,
                                        LAMBDA fp : existsSync(git.fsys, fp \o RejSuffix))
                      changed == SelectSeq(paths.filePaths,
                                    LAMBDA fp : /\ existsSync(fsys, fp)
                                                /\ readLines(fsys, fp) # readLines(git.fsys, fp))
                  IN  IF rejectFiles # <<>>
                      THEN [fsys |-> git.fsys, success |-> FALSE, modifiedFiles |-> <<>>,
                            error |-> ErrRejected,
                            trace |-> began \o <<"writeFile", "unlinkTemp">>,
                            tier |-> TierNative]
                      ELSE [fsys |-> git.fsys, success |-> TRUE,
                            modifiedFiles |-> IF changed # <<>> THEN changed
                                              ELSE paths.filePaths,
                            error |-> ErrNone,
                            trace |-> began \o <<"writeFile", "gitStatus", "unlinkTemp">>,
                            tier |-> TierNative]
             ELSE LET rejectFiles == SelectSeq(paths.filePaths,
                                        LAMBDA fp : existsSync(fsys, fp \o RejSuffix))
                  IN  CHOOSE r \in {FuzzyFallback(began, f) :
                          f \in {applyPatchFuzzy(
                                    Unlinked(fsys, [k \in 1..Len(rejectFiles) |->
                                                       rejectFiles[k] \o RejSuffix]),
                                    patch)}} : TRUE

\* ------------------------------------------------- applyPatch at work

\* a directory tree: "missing" has no root, "plain" has no .git directory
Tree(kind, files) ==
    LET dirs == IF kind = "missing" THEN {}
                ELSE IF kind = "plain" THEN {RepoRoot}
                ELSE {RepoRoot, DotGit}
        kept == IF kind = "missing" THEN {} ELSE DOMAIN files
    IN  [p \in dirs \cup kept |-> IF p \in kept THEN files[p] ELSE <<>>]

TreeKinds == {"missing", "plain", "git"}

\* a file next to the repository directory, and a clone beside which it lies
OutsideF == <<".", ".", "/">> \o FileF
RepoWithNeighbour == Tree("git", [p \in {FileF, OutsideF} |-> CoreA])

\* a clone in which an earlier tool run has left a reject file for f
RepoWithReject == Tree("git", (FileF :> CoreA) @@ ((FileF \o RejSuffix) :> <<La>>))

ApplyRepos == {Tree(kind, [p \in {FileF} |-> Pad(k) \o core]) :
                  kind \in TreeKinds, k \in 0..MaxSkew, core \in {CoreA, CoreW}}
              \cup {RepoWithNeighbour, RepoWithReject}

OldF == OldFileMarker \o FileF
NewF == NewFileMarker \o FileF
NumberedHeader == HunkHeader(2, 3, 2, 3)

\* patches that validation must refuse, and patches it lets pass
EmptyPatch == << <<>> >>
BlankPatch == << <<" ">>, <<>>, <<"\t">> >>
NoOldHeader == <<NewF, NumberedHeader>> \o BodyReplace
NoNewHeader == <<OldF, NumberedHeader>> \o BodyReplace
NoHunkHeader == <<OldF, NewF>> \o BodyReplace
HunkBeforeFile == <<NumberedHeader, OldF, NewF>> \o BodyReplace
UnbalancedHeaders ==
    <<OldF, NewF, NumberedHeader>> \o BodyReplace
    \o <<OldFileMarker \o FileG, NumberedHeader>> \o BodyReplace
MidLineMarkers ==
    << <<"x", " ">> \o OldF, <<"y", " ">> \o NewF, NumberedHeader >> \o BodyReplace
BareHunkPatch == <<OldF, NewF, HunkMarker>> \o BodyReplace

\* a patch whose file headers name the file next to the repository
EscapingPatch ==
    <<OldFileMarker \o OutsideF, NewFileMarker \o OutsideF, NumberedHeader>> \o BodyReplace

\* a hunk as the model writes it: context lines without the space prefix
UnprefixedPatch == <<OldF, NewF, NumberedHeader>> \o BodyUnprefixed

MalformedPatches ==
    {EmptyPatch, BlankPatch, NoOldHeader, NoNewHeader, NoHunkHeader, HunkBeforeFile,
     UnbalancedHeaders}

ApplyPatches ==
    MalformedPatches \cup {MidLineMarkers, BareHunkPatch, EscapingPatch, UnprefixedPatch}
    \cup {HunkPatch(s, b, w) : s \in {2, 3}, b \in Bodies, w \in 0..MaxSkew}

InitApply ==
    /\ repo \in ApplyRepos
    /\ patchText \in ApplyPatches
    /\ applies = 0
    /\ snaps = <<>>
    /\ matchLog = <<>>
    /\ applyResult = NoResult
    /\ rawText = <<>>
    /\ trace = <<>>
    /\ AgentInit
    /\ world = Everything

\* one call of applyPatch(repoPath, patch); git apply ends either way it can
ApplyPatchCall ==
    /\ applies < MaxApplies
    /\ \E fsys \in {repo}, patch \in {patchText} :
       \E git \in GitOutcomes(fsys, patch) :
           \E r \in {applyPatch(fsys, patch, git)} :
               /\ repo' = r.fsys
               /\ applyResult' = [success |-> r.success, modifiedFiles |-> r.modifiedFiles,
                                  error |-> r.error]
               /\ trace' = r.trace
    /\ snaps' = Append(snaps, repo)
    /\ applies' = applies + 1
    /\ UNCHANGED <<patchText, rawText, matchLog, agentVars, world>>

NextApply == ApplyPatchCall

SpecApply == InitApply /\ [][NextApply]_vars

\* ------------------------------------------------- claims on SpecApply

\* the patch is one of those the claim lists: empty, without the text of a
\* file header of either kind, without @@, with its first @@ before its
\* first --- a/, or with different numbers of --- a/ and +++ b/
Malformed(patch) ==
    \/ \A k \in 1..Len(patch) : \A c \in 1..Len(patch[k]) : patch[k][c] \in WS
    \/ \A k \in 1..Len(patch) : ~Includes(patch[k], OldFileMarker)
    \/ \A k \in 1..Len(patch) : ~Includes(patch[k], NewFileMarker)
    \/ \A k \in 1..Len(patch) : ~Includes(patch[k], HunkMarker)
    \/ \E k \in 1..Len(patch) :
           /\ Includes(patch[k], HunkMarker)
           /\ \A j \in 1..(k - 1) : ~Includes(patch[j], OldFileMarker)
           /\ \/ ~Includes(patch[k], OldFileMarker)
              \/ IndexOf(patch[k], HunkMarker) < IndexOf(patch[k], OldFileMarker)
    \/ TextCount(patch, OldFileMarker) # TextCount(patch, NewFileMarker)

\* the last call was refused by validation before it did anything else
RefusedByValidation ==
    /\ ~applyResult.success
    /\ applyResult.modifiedFiles = <<>>
    /\ Len(applyResult.error) = 2
    /\ applyResult.error[1] = ErrInvalid
    /\ trace = <<"validate">>
    /\ repo = snaps[applies]

IsGitRepo(fsys) == RepoRoot \in DOMAIN fsys /\ DotGit \in DOMAIN fsys

Outside(p) == StartsWith(p, <<".", ".", "/">>)
C11_NothingOutsideRootIsWritten ==
    \A k \in 1..Len(snaps) :
        \A p \in DOMAIN snaps[k] : Outside(p) => p \in DOMAIN repo /\ repo[p] = snaps[k][p]

\* git apply has been run in the last call of applyPatch
RanGit == applies > 0 /\ Len(trace) >= 3 /\ trace[3] = "gitApply"

\* C16 as stated: after a call of applyPatch that ran git apply, no reject
\* file remains for any file named in the patch.
C16_NoRejectFileRemains ==
    RanGit => \A k \in 1..Len(parsePatch(patchText)) :
                  ~existsSync(repo, parsePatch(patchText)[k].filePath \o RejSuffix)

\* the fuzzy fallback has parsed the patch in the last call of applyPatch
RanParser == RanGit /\ Len(trace) >= 4 /\ trace[4] = "parsePatch"

\* what the claims C17 and C18 expect of the parser: the files of a patch,
\* each with the body lines of its hunks, when every line beginning with @@
\* opens a hunk of the file under way and every line after it up to the next
\* header belongs to that hunk, the unprefixed ones as Context where
\* lenient is set, else only the prefixed and the empty ones
RECURSIVE ExpectedLoop(_, _, _, _)
ExpectedLoop(lines, k, files, lenient) ==
    IF k > Len(lines) THEN files
    ELSE LET line == lines[k]
             n == Len(files)
         IN  IF StartsWith(line, OldFileMarker)
             THEN ExpectedLoop(lines, k + 1,
                      Append(files, [filePath |-> Trim(Substring(line, 6)), hunks |-> <<>>]),
                      lenient)
             ELSE IF StartsWith(line, NewFileMarker)
             THEN ExpectedLoop(lines, k + 1, files, lenient)
             ELSE IF StartsWith(line, HunkMarker)
             THEN ExpectedLoop(lines, k + 1,
                      IF n = 0 THEN files
                      ELSE [files EXCEPT ![n].hunks = Append(@, <<>>)],
                      lenient)
             ELSE IF n > 0 /\ files[n].hunks # <<>>
                     /\ (\/ StartsWith(line, <<"+">>) \/ StartsWith(line, <<"-">>)
                         \/ StartsWith(line, <<" ">>) \/ line = <<>> \/ lenient)
             THEN ExpectedLoop(lines, k + 1,
                      [files EXCEPT ![n].hunks[Len(files[n].hunks)] =
                          Append(@, IF \/ StartsWith(line, <<"+">>) \/ StartsWith(line, <<"-">>)
                                       \/ StartsWith(line, <<" ">>) \/ line = <<>>
                                    THEN line ELSE <<" ">> \o line)],
                      lenient)
             ELSE ExpectedLoop(lines, k + 1, files, lenient)

\* the files parsePatch returns, each with the body lines of its hunks
Shape(parsedFiles) ==
    [f \in 1..Len(parsedFiles) |->
        [filePath |-> parsedFiles[f].filePath,
         hunks |-> [h \in 1..Len(parsedFiles[f].hunks) |-> parsedFiles[f].hunks[h].lines]]]

\* C17 as stated: in the patch the parser is given, every line beginning
\* with @@, bare or with ranges, opens a hunk of the file under way, and the
\* body lines that follow it are the lines of that hunk.
C17_EveryMarkerOpensAHunk ==
    RanParser => Shape(parsePatch(patchText)) = ExpectedLoop(patchText, 1, <<>>, FALSE)

\* every line of the patch that begins with @@ is a header with ranges
AllHeadersNumbered(patch) ==
    \A k \in 1..Len(patch) :
        StartsWith(patch[k], HunkMarker) => HunkHeaderMatch(patch[k]) # NoMatch

\* C18 as stated: of a patch whose hunk headers all carry ranges, the parser
\* keeps every non-empty body line without prefix in the lines of its hunk,
\* as the Context line of that text.
C18_UnprefixedLineIsContext ==
    (RanParser /\ AllHeadersNumbered(patchText)) =>
        Shape(parsePatch(patchText)) = ExpectedLoop(patchText, 1, <<>>, TRUE)

\* ------------------------------------------------- the apply-fix route

CodeSuffixes == {<<".", "j", "s">>, <<".", "t", "s">>, <<".", "j", "s", "x">>,
                 <<".", "t", "s", "x">>}
SkippedNames == {<<"n", "o", "d", "e", "_", "m", "o", "d", "u", "l", "e", "s">>, <<"d", "i", "s", "t">>, <<"b", "u", "i", "l", "d">>}
KeptHidden == {<<".", "e", "n", "v">>, <<".", "e", "n", "v", ".", "l", "o", "c", "a", "l">>}

EndsWith(s, suffix) ==
    Len(s) >= Len(suffix) /\ SubSeq(s, Len(s) - Len(suffix) + 1, Len(s)) = suffix

\* findRelevantFiles: the code files outside hidden and skipped directories
\* (at most 10 of them; the trees here hold fewer)
findRelevantFiles(fsys) ==
    {p \in DOMAIN fsys :
        LET segs == SplitPath(p, <<>>)
        IN  /\ p # RepoRoot
            /\ \A k \in 1..Len(segs) :
                   /\ ~(StartsWith(segs[k], <<".">>) /\ segs[k] \notin KeptHidden)
                   /\ segs[k] \notin SkippedNames
            /\ \E suffix \in CodeSuffixes : EndsWith(segs[Len(segs)], suffix)}

\* the file list of the preview: the paths of the header lines, each once
RECURSIVE PreviewFiles(_, _)
PreviewFiles(patchLines, seen) ==
    IF patchLines = <<>> THEN seen
    ELSE LET line == Head(patchLines)
             path == IF StartsWith(line, OldFileMarker) \/ StartsWith(line, NewFileMarker)
                     THEN Substring(line, 6) ELSE <<>>
         IN  IF path # <<>> /\ ~StartsWith(path, DevNull)
                /\ ~\E k \in 1..Len(seen) : seen[k] = path
             THEN PreviewFiles(Tail(patchLines), Append(seen, path))
             ELSE PreviewFiles(Tail(patchLines), seen)

\* what the model can answer: a patch with a bare hunk header, a text
\* without hunk header, nothing at all; the call can also fail
GoodOutput == RawPatch(BareHeader, BodyUnprefixed)
HeaderlessOutput == <<OldF, NewF>> \o BodyReplace
\* another answer of the model to the same prompt: another valid patch
OtherOutput == RawPatch(BareHeader, BodyInsert)
GenOutputs == {GoodOutput, OtherOutput, HeaderlessOutput, EmptyPatch}
\* no text is this one: a line of a split text holds no line break
GenThrows == << <<"\n">> >>

VcsOutcomes == {"pushed", "commitFailed", "pushFailed"}

NoPatch == <<>>
Truthy(patch) == patch # NoPatch /\ patch # EmptyPatch

Reply(fsys, code, success, patch, modifiedFiles, raw, result) ==
    [fsys |-> fsys, ok |-> code = 200, success |-> success, patch |-> patch,
     modifiedFiles |-> modifiedFiles, raw |-> raw, result |-> result, threw |-> FALSE]

\* POST of the route on a complete request body. gen is what the model
\* answered (GenThrows: generatePatch threw) and patch what generatePatch
\* made of it; patchResult is what applyPatch returned, vcs the outcome of
\* commit and push. The latter are looked at only where the route gets there.
POST(fsys, body, gen, patch, patchResult, vcs) ==
    IF findRelevantFiles(fsys) = {}
    THEN Reply(fsys, 200, FALSE, NoPatch, <<>>, <<>>, <<>>)
    ELSE IF gen = GenThrows
    THEN Reply(fsys, 500, FALSE, NoPatch, <<>>, <<gen>>, <<>>)
    ELSE IF body.preview
    THEN Reply(fsys, 200, TRUE, patch, PreviewFiles(patch, <<>>), <<gen>>, <<>>)
    ELSE IF ~patchResult.success
    THEN Reply(patchResult.fsys, 500, FALSE, patch, <<>>, <<gen>>, <<patchResult>>)
    ELSE IF patchResult.modifiedFiles = <<>>
    THEN Reply(patchResult.fsys, 200, TRUE, patch, <<>>, <<gen>>, <<patchResult>>)
    ELSE IF vcs = "commitFailed" \/ vcs = "pushFailed"
    THEN Reply(patchResult.fsys, 500, FALSE, patch, patchResult.modifiedFiles,
               <<gen>>, <<patchResult>>)
    ELSE Reply(patchResult.fsys, 200, TRUE, patch, patchResult.modifiedFiles,
               <<gen>>, <<patchResult>>)

\* the replies to a request whose generated patch is patch
RepliesWith(fsys, body, gen, patch) ==
    IF body.preview
    THEN {POST(fsys, body, gen, patch, Refused(fsys, ErrNone, <<>>), "pushed")}
    ELSE UNION {{POST(fsys, body, gen, patch, patchResult, vcs) :
                    patchResult \in {applyPatch(fsys, patch, git)}, vcs \in VcsOutcomes} :
                git \in GitOutcomes(fsys, patch)}

\* every reply the route can give to the request
RouteReplies(fsys, body) ==
    IF findRelevantFiles(fsys) = {}
    THEN {POST(fsys, body, GenThrows, NoPatch, Refused(fsys, ErrNone, <<>>), "pushed")}
    ELSE {POST(fsys, body, GenThrows, NoPatch, Refused(fsys, ErrNone, <<>>), "pushed")}
         \cup UNION {UNION {RepliesWith(fsys, body, gen, patch) :
                               patch \in {PostProcess(gen, fsys)}} :
                     gen \in GenOutputs}

\* fetch rejects: the request never reached the route
FetchFailed(fsys) ==
    [fsys |-> fsys, ok |-> FALSE, success |-> FALSE, patch |-> NoPatch,
     modifiedFiles |-> <<>>, raw |-> <<>>, result |-> <<>>, threw |-> TRUE]

\* ------------------------------------------------------------- runAgent

maxRetries == 3
SelectIssueStep == 1
PrepareRepoStep == 2
ApplyFixStep == 4
PRStep == 5
FinalStep == 7


\* strategy of retryState with the two later strategies exchanged
StrategyOfSwapped(attempt) ==
    IF attempt = 2 THEN "regenerate" ELSE IF attempt = 3 THEN "fuzzy" ELSE "standard"

\* attempt === 2 ? "fuzzy" : attempt === 3 ? "regenerate" : "standard"
StrategyOf(attempt) ==
    IF attempt = 2 THEN "fuzzy" ELSE IF attempt = 3 THEN "regenerate" ELSE "standard"

\* the loop condition without the test of patchApplied
LoopContinuesBlind(patchApplied, attempt) == attempt < maxRetries

\* while (!patchApplied && attempt < maxRetries)
LoopContinues(patchApplied, attempt) == ~patchApplied /\ attempt < maxRetries

\* the exhaustion branch going on with the pipeline instead of returning
ExhaustedGoesOn(run) == [run EXCEPT !.pc = "complete", !.outcome = "exhausted"]

\* the exhaustion branch: "All retries exhausted", return
Exhausted(run) == [run EXCEPT !.pc = "done", !.outcome = "exhausted"]

\* the locals of a call of runAgent at its start
NewRun(issue) ==
    [pc |-> "begin", i |-> 0, issue |-> issue, repoPath |-> FALSE, attempt |-> 0,
     patchApplied |-> FALSE, approved |-> FALSE, createdPR |-> FALSE, reqIx |-> 0,
     resp |-> <<>>, outcome |-> "running", stoppedAt |-> "never"]

\* the calls of runAgent, those that have not returned marked with the
\* place at which they were first asked to stop (stoppedAt is a record of
\* what happened to the call, no code reads it)
AskedToStop ==
    [r \in DOMAIN runs |->
        IF runs[r].pc # "done" /\ runs[r].stoppedAt = "never"
        THEN [runs[r] EXCEPT !.stoppedAt = runs[r].pc] ELSE runs[r]]

Exit(r, outcome) == [runs EXCEPT ![r].pc = "done", ![r].outcome = outcome]

\* checkCancelled() found the flag set: status idle, return
Cancel(r) ==
    /\ status' = "idle"
    /\ currentStepIndex' = 0 - 1
    /\ runs' = Exit(r, "cancelled")
    /\ UNCHANGED <<steps, retryState, pendingPatch>>

\* a step of the run halts the agent: the step and the status become error
Halt(r, outcome) ==
    /\ steps' = [steps EXCEPT ![runs[r].i] = "error"]
    /\ status' = "error"
    /\ currentStepIndex' = runs[r].i
    /\ runs' = Exit(r, outcome)

\* a request to the route leaves the client
Sent(r, preview, attempt) ==
    [reqLog EXCEPT ![r] = Append(@,
        [preview |-> preview, attempt |-> attempt, strategy |-> StrategyOf(attempt),
         useFuzzy |-> attempt = 2, regenerate |-> attempt = 3,
         served |-> FALSE, ok |-> FALSE, generated |-> FALSE,
         formatError |-> FALSE, tier |-> TierNone, patch |-> NoPatch])]

\* what the surroundings can hand to the agent. Where the services cannot
\* fail there is an issue to fix, the clone succeeds, the model gives the
\* same answer every time, the route answers 200 with a patch, and the pull
\* request is created.
Issues == IF world.faults THEN BOOLEAN ELSE {TRUE}
PrepareAnswers == IF world.faults THEN {"ok", "refused", "threw"} ELSE {"ok"}
PRAnswers == IF world.faults THEN BOOLEAN ELSE {TRUE}
Answers(fsys, body) ==
    IF world.faults THEN RouteReplies(fsys, body) \cup {FetchFailed(fsys)}
    ELSE {reply \in RouteReplies(fsys, body) :
             reply.ok /\ Truthy(reply.patch) /\ reply.raw = <<GoodOutput>>}

\* runAgent() while the agent runs: stop it
StopRun ==
    /\ status = "running"
    /\ isCancelledRef' = TRUE
    /\ status' = "idle"
    /\ currentStepIndex' = 0 - 1
    /\ runs' = AskedToStop
    /\ UNCHANGED <<world, engineVars, steps, retryState, pendingPatch, patchApprovalRef,
                   timers, resets, reqLog>>

\* runAgent(repo) while the agent does not run: up to the first step
StartRun ==
    /\ status # "running"
    /\ Len(runs) < world.runLimit
    /\ \E issue \in Issues : runs' = Append(runs, NewRun(issue))
    /\ reqLog' = Append(reqLog, <<>>)
    /\ isCancelledRef' = FALSE
    /\ status' = "running"
    /\ currentStepIndex' = 0
    /\ steps' = initialSteps
    /\ retryState' = <<>>
    /\ pendingPatch' = <<>>
    /\ UNCHANGED <<world, engineVars, patchApprovalRef, timers, resets>>

\* top of the loop over stepConfigs: the step becomes active, its logs are
\* added, and its own work begins
StepBegin(r) ==
    LET run == runs[r]
        active == [steps EXCEPT ![run.i] = "active"]
    IN  /\ run.pc = "begin"
        /\ IF isCancelledRef THEN Cancel(r) /\ UNCHANGED <<timers, reqLog>>
           ELSE IF run.i = SelectIssueStep /\ ~run.issue
           THEN /\ steps' = [steps EXCEPT ![run.i] = "error"]
                /\ status' = "idle"
                /\ currentStepIndex' = 0 - 1
                /\ runs' = Exit(r, "noIssue")
                /\ timers' = [timers EXCEPT !.reset = @ + 1]
                /\ UNCHANGED <<retryState, pendingPatch, reqLog>>
           ELSE /\ steps' = active
                /\ currentStepIndex' = run.i
                /\ UNCHANGED <<status, retryState, pendingPatch, timers>>
                /\ IF run.i = PrepareRepoStep /\ run.issue
                   THEN runs' = [runs EXCEPT ![r].pc = "prepare"] /\ UNCHANGED reqLog
                   ELSE IF run.i = ApplyFixStep /\ run.issue /\ run.repoPath
                   THEN /\ reqLog' = Sent(r, TRUE, 0)
                        /\ runs' = [runs EXCEPT ![r].pc = "preview",
                                                ![r].reqIx = Len(reqLog[r]) + 1]
                   ELSE IF run.i = PRStep /\ run.issue
                   THEN runs' = [runs EXCEPT ![r].pc = "pr"] /\ UNCHANGED reqLog
                   ELSE runs' = [runs EXCEPT ![r].pc = "complete"] /\ UNCHANGED reqLog
        /\ UNCHANGED <<world, engineVars, isCancelledRef, patchApprovalRef, resets>>

\* the answer of /api/agent/prepareRepo arrives, or the fetch rejects
PrepareDone(r) ==
    /\ runs[r].pc = "prepare"
    /\ IF isCancelledRef THEN Cancel(r)
       ELSE \E answer \in PrepareAnswers :
                IF answer = "ok"
                THEN /\ runs' = [runs EXCEPT ![r].pc = "complete", ![r].repoPath = TRUE]
                     /\ UNCHANGED <<status, currentStepIndex, steps, retryState,
                                    pendingPatch>>
                ELSE /\ status' = "error"
                     /\ currentStepIndex' = runs[r].i
                     /\ runs' = Exit(r, "prepareFailed")
                     /\ UNCHANGED <<steps, retryState, pendingPatch>>
    /\ UNCHANGED <<world, engineVars, isCancelledRef, patchApprovalRef, timers, resets, reqLog>>

\* the route serves the request of run r, or the fetch rejects
ServerHandle(r) ==
    LET ix == runs[r].reqIx
    IN  /\ runs[r].pc \in {"preview", "applying"}
        /\ \E fsys \in {repo}, body \in {reqLog[r][ix]} :
           \E reply \in Answers(fsys, body) :
               /\ repo' = reply.fsys
               /\ reqLog' = [reqLog EXCEPT ![r][ix] =
                      [@ EXCEPT !.served = ~reply.threw,
                                !.ok = reply.ok,
                                !.generated = reply.raw # <<>>,
                                !.patch = reply.patch,
                                !.formatError = /\ reply.result # <<>>
                                                /\ reply.result[1].trace = <<"validate">>
                                                /\ reply.result[1].error # ErrTraversal,
                                !.tier = IF reply.result # <<>>
                                         THEN reply.result[1].tier ELSE TierNone]]
               /\ runs' = [runs EXCEPT
                      ![r].pc = IF runs[r].pc = "preview" THEN "previewed" ELSE "applied",
                      ![r].resp = <<[ok |-> reply.ok, threw |-> reply.threw,
                                     patch |-> reply.patch,
                                     modifiedFiles |-> reply.modifiedFiles]>>]
        /\ UNCHANGED <<world, patchText, applies, snaps, matchLog, applyResult, rawText, trace,
                       status, currentStepIndex, steps, retryState, pendingPatch,
                       isCancelledRef, patchApprovalRef, timers, resets>>

\* the preview answer arrives: the patch is put up for approval
PreviewDone(r) ==
    LET run == runs[r]
        resp == run.resp[1]
    IN  /\ run.pc = "previewed"
        /\ IF isCancelledRef THEN Cancel(r) /\ UNCHANGED patchApprovalRef
           ELSE IF resp.threw \/ ~resp.ok
           THEN /\ Halt(r, "previewFailed")
                /\ UNCHANGED <<retryState, pendingPatch, patchApprovalRef>>
           ELSE IF Truthy(resp.patch)
           THEN /\ pendingPatch' = <<[patch |-> resp.patch,
                                      modifiedFiles |-> resp.modifiedFiles,
                                      stepIndex |-> run.i]>>
                /\ patchApprovalRef' = r
                /\ runs' = [runs EXCEPT ![r].pc = "approval", ![r].resp = <<>>]
                /\ UNCHANGED <<status, currentStepIndex, steps, retryState>>
           ELSE \* "No patch generated for preview": continue with the next step
                /\ runs' = [runs EXCEPT ![r].pc = "begin", ![r].i = run.i + 1,
                                        ![r].resp = <<>>]
                /\ UNCHANGED <<status, currentStepIndex, steps, retryState, pendingPatch,
                               patchApprovalRef>>
        /\ UNCHANGED <<world, engineVars, isCancelledRef, timers, resets, reqLog>>

approvePatch ==
    /\ patchApprovalRef # 0
    /\ runs' = [runs EXCEPT ![patchApprovalRef].pc = "resolved",
                            ![patchApprovalRef].approved = TRUE]
    /\ patchApprovalRef' = 0
    /\ UNCHANGED <<world, engineVars, status, currentStepIndex, steps, retryState, pendingPatch,
                   isCancelledRef, timers, resets, reqLog>>

rejectPatch ==
    /\ patchApprovalRef # 0
    /\ runs' = [runs EXCEPT ![patchApprovalRef].pc = "resolved",
                            ![patchApprovalRef].approved = FALSE]
    /\ patchApprovalRef' = 0
    /\ UNCHANGED <<world, engineVars, status, currentStepIndex, steps, retryState, pendingPatch,
                   isCancelledRef, timers, resets, reqLog>>

\* the test of the approval with every answer taken as an approval
ApprovedAnyway(run) == TRUE

\* if (!approved): the value the approval promise resolved with
Approved(run) == run.approved

\* the approval promise has resolved
Resolved(r) ==
    /\ runs[r].pc = "resolved"
    /\ IF isCancelledRef THEN Cancel(r)
       ELSE IF ~Approved(runs[r])
       THEN /\ Halt(r, "rejected")
            /\ pendingPatch' = <<>>
            /\ UNCHANGED retryState
       ELSE /\ pendingPatch' = <<>>
            /\ runs' = [runs EXCEPT ![r].pc = "attempt", ![r].attempt = 0,
                                    ![r].patchApplied = FALSE]
            /\ UNCHANGED <<status, currentStepIndex, steps, retryState>>
    /\ UNCHANGED <<world, engineVars, isCancelledRef, patchApprovalRef, timers, resets, reqLog>>

\* one pass of the retry loop up to its fetch
AttemptSend(r) ==
    LET run == runs[r]
        attempt == run.attempt + 1
    IN  /\ run.pc = "attempt"
        /\ LoopContinues(run.patchApplied, run.attempt)
        /\ IF isCancelledRef
           THEN Cancel(r) /\ UNCHANGED reqLog
           ELSE /\ retryState' = <<[attempt |-> attempt - 1, maxAttempts |-> maxRetries,
                                    strategy |-> StrategyOf(attempt)]>>
                /\ reqLog' = Sent(r, FALSE, attempt)
                /\ runs' = [runs EXCEPT ![r].pc = "applying", ![r].attempt = attempt,
                                        ![r].reqIx = Len(reqLog[r]) + 1]
                /\ UNCHANGED <<status, currentStepIndex, steps, pendingPatch>>
        /\ UNCHANGED <<world, engineVars, isCancelledRef, patchApprovalRef, timers, resets>>

\* the answer to an apply request arrives
ApplyDone(r) ==
    LET run == runs[r]
        resp == run.resp[1]
    IN  /\ run.pc = "applied"
        /\ IF isCancelledRef THEN Cancel(r)
           ELSE IF resp.threw
           THEN Halt(r, "threw") /\ UNCHANGED <<retryState, pendingPatch>>
           ELSE IF resp.ok
           THEN /\ retryState' = <<>>
                /\ runs' = [runs EXCEPT
                       ![r].patchApplied = TRUE,
                       ![r].pc = IF LoopContinues(TRUE, run.attempt)
                                 THEN "attempt" ELSE "afterApply"]
                /\ UNCHANGED <<status, currentStepIndex, steps, pendingPatch>>
           ELSE IF run.attempt < maxRetries
           THEN /\ runs' = [runs EXCEPT ![r].pc = "attempt", ![r].resp = <<>>]
                /\ UNCHANGED <<status, currentStepIndex, steps, retryState, pendingPatch>>
           ELSE /\ steps' = [steps EXCEPT ![run.i] = "error"]
                /\ status' = "error"
                /\ currentStepIndex' = run.i
                /\ retryState' = <<>>
                /\ runs' = [runs EXCEPT ![r] = Exhausted(run)]
                /\ UNCHANGED pendingPatch
        /\ UNCHANGED <<world, engineVars, isCancelledRef, patchApprovalRef, timers, resets, reqLog>>

\* the rest of the apply-fix step after the loop
AfterApply(r) ==
    /\ runs[r].pc = "afterApply"
    /\ IF isCancelledRef THEN Cancel(r)
       ELSE /\ runs' = [runs EXCEPT ![r].pc = "complete", ![r].resp = <<>>]
            /\ UNCHANGED <<status, currentStepIndex, steps, retryState, pendingPatch>>
    /\ UNCHANGED <<world, engineVars, isCancelledRef, patchApprovalRef, timers, resets, reqLog>>

\* the answer of /api/github/pr arrives, or the fetch rejects
PRDone(r) ==
    /\ runs[r].pc = "pr"
    /\ IF isCancelledRef THEN Cancel(r)
       ELSE /\ \E created \in PRAnswers :
                   runs' = [runs EXCEPT ![r].pc = "complete", ![r].createdPR = created]
            /\ UNCHANGED <<status, currentStepIndex, steps, retryState, pendingPatch>>
    /\ UNCHANGED <<world, engineVars, isCancelledRef, patchApprovalRef, timers, resets, reqLog>>

\* the step is marked completed; after the last one the agent is completed
StepComplete(r) ==
    LET run == runs[r]
    IN  /\ run.pc = "complete"
        /\ IF isCancelledRef THEN Cancel(r)
           ELSE /\ steps' = [steps EXCEPT ![run.i] = "completed"]
                /\ IF run.i < FinalStep
                   THEN /\ runs' = [runs EXCEPT ![r].pc = "begin", ![r].i = run.i + 1]
                        /\ UNCHANGED status
                   ELSE /\ runs' = Exit(r, "completed")
                        /\ status' = "completed"
                /\ UNCHANGED <<currentStepIndex, retryState, pendingPatch>>
        /\ UNCHANGED <<world, engineVars, isCancelledRef, patchApprovalRef, timers, resets, reqLog>>

resetAgent ==
    /\ resets < MaxResets
    /\ resets' = resets + 1
    /\ isCancelledRef' = TRUE
    /\ status' = "idle"
    /\ currentStepIndex' = 0 - 1
    /\ steps' = initialSteps
    /\ pendingPatch' = <<>>
    /\ retryState' = <<>>
    /\ timers' = [timers EXCEPT !.clear = @ + 1]
    /\ runs' = AskedToStop
    /\ UNCHANGED <<world, engineVars, patchApprovalRef, reqLog>>

\* the reset two seconds after "No issues found"
TimerReset ==
    /\ timers.reset > 0
    /\ isCancelledRef' = TRUE
    /\ status' = "idle"
    /\ currentStepIndex' = 0 - 1
    /\ steps' = initialSteps
    /\ timers' = [reset |-> timers.reset - 1, clear |-> timers.clear + 1]
    /\ runs' = AskedToStop
    /\ UNCHANGED <<world, engineVars, retryState, pendingPatch, patchApprovalRef, resets,
                   reqLog>>

\* isCancelledRef.current = false, 100 ms after a reset
TimerClear ==
    /\ timers.clear > 0
    /\ isCancelledRef' = FALSE
    /\ timers' = [timers EXCEPT !.clear = @ - 1]
    /\ UNCHANGED <<world, engineVars, status, currentStepIndex, steps, retryState, pendingPatch,
                   patchApprovalRef, runs, resets, reqLog>>

\* the clones the agent works on: one with the code file, one without code
AgentRepos == {Tree("git", [p \in {FileF} |-> CoreA]),
               Tree("git", [p \in {<<"R", "E", "A", "D", "M", "E">>} |-> <<La>>])}

Init ==
    /\ repo \in AgentRepos
    /\ patchText = NoPatch
    /\ applies = 0
    /\ snaps = <<>>
    /\ matchLog = <<>>
    /\ applyResult = NoResult
    /\ rawText = <<>>
    /\ trace = <<>>
    /\ AgentInit
    /\ world = Everything

Next ==
    \/ StartRun
    \/ StopRun
    \/ resetAgent
    \/ TimerReset
    \/ TimerClear
    \/ approvePatch
    \/ rejectPatch
    \/ \E r \in DOMAIN runs : StepBegin(r)
    \/ \E r \in DOMAIN runs : PrepareDone(r)
    \/ \E r \in DOMAIN runs : ServerHandle(r)
    \/ \E r \in DOMAIN runs : PreviewDone(r)
    \/ \E r \in DOMAIN runs : Resolved(r)
    \/ \E r \in DOMAIN runs : AttemptSend(r)
    \/ \E r \in DOMAIN runs : ApplyDone(r)
    \/ \E r \in DOMAIN runs : AfterApply(r)
    \/ \E r \in DOMAIN runs : PRDone(r)
    \/ \E r \in DOMAIN runs : StepComplete(r)

Spec == Init /\ [][Next]_vars

\* ------------------------------------------- the user restarts the agent

MaxRaceRuns == 2

\* the user stops the agent and starts it again, never resets it and
\* approves every patch; the services do not fail
InitRace ==
    /\ repo = Tree("git", [p \in {FileF} |-> CoreA])
    /\ patchText = NoPatch
    /\ applies = 0
    /\ snaps = <<>>
    /\ matchLog = <<>>
    /\ applyResult = NoResult
    /\ rawText = <<>>
    /\ trace = <<>>
    /\ AgentInit
    /\ world = [runLimit |-> MaxRaceRuns, faults |-> FALSE]

NextRace ==
    \/ StartRun
    \/ StopRun
    \/ approvePatch
    \/ \E r \in DOMAIN runs : StepBegin(r)
    \/ \E r \in DOMAIN runs : PrepareDone(r)
    \/ \E r \in DOMAIN runs : ServerHandle(r)
    \/ \E r \in DOMAIN runs : PreviewDone(r)
    \/ \E r \in DOMAIN runs : Resolved(r)
    \/ \E r \in DOMAIN runs : AttemptSend(r)
    \/ \E r \in DOMAIN runs : ApplyDone(r)
    \/ \E r \in DOMAIN runs : AfterApply(r)
    \/ \E r \in DOMAIN runs : PRDone(r)
    \/ \E r \in DOMAIN runs : StepComplete(r)

SpecRace == InitRace /\ [][NextRace]_vars


\* ------------------------------------------------------ claims on Spec

\* the apply requests (preview: false) of run r, in the order it sent them
ApplyEntries(r) == SelectSeq(reqLog[r], LAMBDA e : ~e.preview)

Ladder == <<"standard", "fuzzy", "regenerate">>

\* C4 as stated: when git apply fails on the patch and the fuzzy applicator
\* succeeds, the apply request that succeeds so is the second of the
\* escalation, sent with the strategy fuzzy, and the route has called
\* generatePatch for no apply request of the escalation up to it.
C4_FuzzySuccessIsTierTwoWithoutGenerator ==
    \A r \in DOMAIN runs :
        \A k \in 1..Len(ApplyEntries(r)) :
            LET e == ApplyEntries(r)[k]
            IN  (e.served /\ e.ok /\ e.tier = TierFuzzy) =>
                    /\ e.attempt = 2
                    /\ e.strategy = "fuzzy"
                    /\ \A j \in 1..k : ~ApplyEntries(r)[j].generated

\* C13 as stated: the route calls generatePatch for no apply request of the
\* attempts 1 and 2, and the patch it applies for attempt 2 is the patch it
\* applied for attempt 1.
C13_GeneratorOnlyAtAttemptThree ==
    \A r \in DOMAIN runs :
        \A k \in 1..Len(ApplyEntries(r)) :
            LET e == ApplyEntries(r)[k]
            IN  (e.served /\ e.attempt \in {1, 2}) =>
                    /\ ~e.generated
                    /\ e.attempt = 2 => e.patch = ApplyEntries(r)[1].patch

\* the places of a call of runAgent inside the retry loop of the apply-fix step
InEscalation == {"attempt", "applying", "applied"}

\* C14 as stated: a call of runAgent that was asked to stop (by stop or by
\* reset) inside the retry loop sends no further request to the route,
\* begins no further step, and changes nothing of the agent's state but to
\* leave it idle when it observes the cancellation.
C14_CancelledRunDoesNothingMore ==
    [][\A r \in DOMAIN runs :
          (runs[r].stoppedAt \in InEscalation /\ runs'[r] # runs[r]) =>
              /\ Len(reqLog'[r]) = Len(reqLog[r])
              /\ runs'[r].i = runs[r].i
              /\ runs'[r].pc \in {"done", "previewed", "applied", "resolved"}
              /\ runs'[r].pc = "done" => runs'[r].outcome = "cancelled"
              /\ steps' = steps /\ retryState' = retryState /\ pendingPatch' = pendingPatch
              /\ status' = status \/ status' = "idle"]_vars

\* C15 as stated: at no time have two calls of runAgent an apply request
\* (preview: false) in flight.
InFlight(r) == runs[r].pc = "applying"
C15_OneApplyInFlight == Cardinality({r \in DOMAIN runs : InFlight(r)}) <= 1

\* C6: a run sends at most 3 apply requests, and the k-th of them is
\* attempt k with the strategy standard, fuzzy, regenerate for k = 1, 2, 3;
\* retryState names the attempt under way with that strategy.
C6_LadderIsForward ==
    /\ \A r \in DOMAIN runs :
           /\ Len(ApplyEntries(r)) <= 3
           /\ runs[r].attempt = Len(ApplyEntries(r))
           /\ \A k \in 1..Len(ApplyEntries(r)) :
                  /\ ApplyEntries(r)[k].attempt = k
                  /\ ApplyEntries(r)[k].strategy = Ladder[k]
    /\ retryState # <<>> =>
           /\ retryState[1].attempt \in 0..2
           /\ retryState[1].strategy = Ladder[retryState[1].attempt + 1]

\* a run has gone through the three attempts
C6_Witness ==
    \E r \in DOMAIN runs :
        /\ Len(ApplyEntries(r)) = 3
        /\ ApplyEntries(r)[3].served
        /\ ApplyEntries(r)[3].strategy = "regenerate"

\* C7: once an apply request of a run has been answered with success, the
\* run sends no further apply request.
C7_SuccessEndsLadder ==
    \A r \in DOMAIN runs :
        \A k \in 1..Len(ApplyEntries(r)) :
            (ApplyEntries(r)[k].served /\ ApplyEntries(r)[k].ok) => k = Len(ApplyEntries(r))

\* a run whose second attempt succeeded has gone on to the later steps
C7_Witness ==
    \E r \in DOMAIN runs :
        /\ Len(ApplyEntries(r)) = 2
        /\ ~ApplyEntries(r)[1].ok
        /\ ApplyEntries(r)[2].served /\ ApplyEntries(r)[2].ok
        /\ runs[r].patchApplied
        /\ runs[r].i > ApplyFixStep

\* the run has returned from the exhaustion branch in the apply-fix step
\* after three apply requests, all of them answered with a failure
EndedExhausted(r) ==
    /\ runs[r].pc = "done"
    /\ runs[r].i = ApplyFixStep
    /\ ~runs[r].patchApplied
    /\ Len(ApplyEntries(r)) = 3
    /\ \A k \in 1..3 : ApplyEntries(r)[k].served /\ ~ApplyEntries(r)[k].ok

C9_FormatErrorEndsLadder ==
    \A r \in DOMAIN runs :
        \A k \in 1..Len(ApplyEntries(r)) :
            ApplyEntries(r)[k].formatError => k = Len(ApplyEntries(r))

\* the apply-fix step of run r has ended: the run has left the retry loop
\* with the patch applied, or has returned in that step, or is beyond it
StepEnded(r) ==
    \/ runs[r].i > ApplyFixStep
    \/ runs[r].i = ApplyFixStep /\ runs[r].pc \in {"afterApply", "complete", "done"}

\* C25: a retryState holds an attempt index in 0..maxAttempts and the
\* strategy of its tier (index 0 standard, 1 fuzzy, 2 regenerate), and no
\* retryState remains once the apply-fix step of a run nobody stopped has
\* ended.
C25_NoRetryStateAfterTheStep ==
    /\ retryState # <<>> =>
           /\ retryState[1].maxAttempts = maxRetries
           /\ retryState[1].attempt \in 0..retryState[1].maxAttempts
           /\ retryState[1].strategy = Ladder[retryState[1].attempt + 1]
    /\ \A r \in DOMAIN runs :
           (StepEnded(r) /\ runs[r].stoppedAt = "never") => retryState = <<>>

\* C25 for the ends the spec names: after success or exhaustion no
\* retryState remains
C25_NoRetryStateAfterSuccessOrExhaustion ==
    \A r \in DOMAIN runs :
        (/\ StepEnded(r)
         /\ runs[r].stoppedAt = "never"
         /\ runs[r].patchApplied \/ runs[r].outcome = "exhausted") => retryState = <<>>

\* the steps after the apply-fix step
LaterSteps == {k \in StepIndexes : k > ApplyFixStep}

\* the user has answered the preview of run r with a rejection
UserRejected(r) ==
    /\ ~runs[r].approved
    /\ runs[r].pc = "resolved" \/ runs[r].outcome = "rejected"

\* no apply request without approval, and none after a rejection, whose run
\* leaves the later steps pending
NoApplyUnlessApproved ==
    \A r \in DOMAIN runs :
        /\ ApplyEntries(r) # <<>> => runs[r].approved
        /\ UserRejected(r) =>
               /\ ApplyEntries(r) = <<>>
               /\ \A k \in LaterSteps : steps[k] = "pending"

PreviewedPatch(r) ==
    LET shown == SelectSeq(reqLog[r], LAMBDA e : e.preview /\ e.served)
    IN  IF shown = <<>> THEN NoPatch ELSE shown[Len(shown)].patch

\* C28: for every run, the patch of each apply request served at attempts
\* 1 and 2 is the patch that was shown in the preview and approved.
C28_AppliedPatchIsTheApprovedPatch ==
    \A r \in DOMAIN runs :
        \A k \in 1..Len(ApplyEntries(r)) :
            LET e == ApplyEntries(r)[k]
            IN  (e.served /\ e.ok /\ e.attempt \in {1, 2} /\ runs[r].approved)
                    => e.patch = PreviewedPatch(r)

\* in run r a patch was generated and shown, the user approved it, and an
\* apply request was answered with success
FixedByApprovedPatch(r) ==
    /\ Truthy(PreviewedPatch(r))
    /\ runs[r].approved
    /\ \E k \in 1..Len(ApplyEntries(r)) : ApplyEntries(r)[k].served /\ ApplyEntries(r)[k].ok

\* C29: the agent status is completed only if a run has completed in which
\* a patch was generated, approved by the user and applied with success,
\* and in every state with status completed all eight steps of the pipeline
\* are completed.
C29_CompletedMeansFixed ==
    status = "completed" =>
        /\ \E r \in DOMAIN runs : runs[r].outcome = "completed" /\ FixedByApprovedPatch(r)
        /\ Cardinality(StepIndexes) = 8
        /\ \A k \in StepIndexes : steps[k] = "completed"

\* C29 for the runs that did apply an approved patch and were never asked
\* to stop: when such a run completes, all steps are completed
C29_FixedRunCompletesAllSteps ==
    (/\ status = "completed"
     /\ \E r \in DOMAIN runs : /\ runs[r].outcome = "completed"
                                /\ runs[r].stoppedAt = "never"
                                /\ FixedByApprovedPatch(r))
        => \A k \in StepIndexes : steps[k] = "completed"

====
